---- MODULE Spec2Model ----
(***************************************************************************)
(* Model of the MCP websocket server of bannff/lazer-cats:                 *)
(*   - the dispatch loop of MCP/src/main.py (websocket_endpoint),          *)
(*   - the process supervisor of MCP/src/main.py (ConnectionManager,       *)
(*     handle_start_long_running_command, collect_process_output,          *)
(*     handle_get_process_output, handle_kill_process),                    *)
(*   - the terminal sessions of MCP/src/terminal_repl.py.                  *)
(* The server is one asyncio event loop: a step of the model is the code a *)
(* coroutine runs between two points where it really suspends.             *)
(***************************************************************************)
EXTENDS Integers, Sequences, FiniteSets, TLC

\* ---------------------------------------------------------------- bounds
NumChannels == 2      \* websocket connections ever opened
MaxProcs    == 2      \* child processes ever spawned by startLongRunningCommand
OutLines    == 1      \* lines a child writes to stdout
ErrLines    == 1      \* lines a child writes to stderr
MaxSessions == 2      \* terminal sessions ever created
ShellLines  == 2      \* lines a shell writes to its output
MaxInput    == 2      \* calls of stdin.write on one shell
MaxCount    == 2      \* largest lineCount a client asks readTerminalOutput for

Channels == 1 .. NumChannels
Pids     == 1 .. MaxProcs
Tids     == 1 .. MaxSessions

\* Strings a client uses as request id and as processId.
Ids == {"a", "b"}

\* Values of an optional parameter that are not a usable string.
Absent     == "<absent>"       \* the parameter is missing
Unhashable == "<list>"         \* a JSON array or object: not hashable in Python

\* _current_terminal_id = None, and a request without terminalId
NoTerminal == 0

\* exit codes: natural exits, and the code asyncio reports after SIGKILL
SuccessCode  == 0
FailureCode  == 1
KilledCode   == -9

EmptyMap == [k \in {} |-> 0]
Put(f, k, v) == [x \in (DOMAIN f) \cup {k} |-> IF x = k THEN v ELSE f[x]]
Del(f, k)    == [x \in (DOMAIN f) \ {k} |-> f[x]]

VARIABLES
  active_connections,      \* ConnectionManager.active_connections
  running_processes,       \* ConnectionManager.running_processes: key -> pid
  process_output_buffers,  \* ConnectionManager.process_output_buffers: key -> lines
  loop,                    \* position of websocket_endpoint, per channel
  handlers,                \* suspended handler coroutines
  event,                   \* what the latest step did on a channel: request, frames sent
  procs,                   \* the child processes, by pid
  pumps,                   \* the collect_process_output tasks, by pid
  _active_terminals,       \* terminal_repl._active_terminals: id -> session
  _current_terminal_id,    \* terminal_repl._current_terminal_id
  shells,                  \* the shell processes of the terminal sessions, by id
  startedUnder,            \* history: pid -> key its start stored it under
  returned,                \* history: the lines some getProcessOutput has returned
  reapedSince,             \* history: pids whose exit was recorded since the last
                           \*          getProcessOutput of their key
  quiet                    \* history: pids whose key was drained after that record
                           \*          and not started again since

vars == <<active_connections, running_processes, process_output_buffers, loop,
          handlers, event, procs, pumps, _active_terminals,
          _current_terminal_id, shells, startedUnder, returned, reapedSince, quiet>>

procVars == <<running_processes, process_output_buffers, procs, pumps,
              startedUnder, returned, reapedSince, quiet>>
termVars == <<_active_terminals, _current_terminal_id, shells>>

\* ------------------------------------------------------------- messages
NoResult == [status |-> "", output |-> <<>>, isRunning |-> FALSE, processId |-> ""]
NoError  == [code |-> 0, message |-> <<>>]

\* class Message, as the server fills it for what it sends
Message(type, id, result, error) ==
  [type |-> type, id |-> id, result |-> result, error |-> error]

\* ConnectionManager.send_response: one text frame on the websocket
send_response(ev, message_id, result, websocket) ==
  [ev EXCEPT !.replies =
     Append(@, [to |-> websocket, msg |-> Message("response", message_id, result, NoError)]),
     !.done = TRUE]

\* ConnectionManager.send_error: one text frame on the websocket
send_error(ev, message_id, error_code, error_message, websocket) ==
  [ev EXCEPT !.replies =
     Append(@, [to |-> websocket,
                msg |-> Message("error", message_id, NoResult,
                                [code |-> error_code, message |-> error_message])]),
     !.done = TRUE]

\* no step on any channel
NoEvent == [ch |-> 0, id |-> "", method |-> "", done |-> FALSE, replies |-> <<>>]

\* a request is read off the wire and its handler starts: nothing is sent yet
Read(websocket, id, method) ==
  [ch |-> websocket, id |-> id, method |-> method, done |-> FALSE, replies |-> <<>>]

\* a suspended handler goes on
Resume(h) == Read(h.ch, h.id, h.method)

\* the handler ends with an exception that websocket_endpoint catches and prints
Raised(ev) == [ev EXCEPT !.done = TRUE]

\* ---------------------------------------------------- output of a child
\* a line as the pump stores it: stdout lines as decoded, stderr lines behind
\* the prefix "ERROR: ", and the line recording the exit code
StdoutLine(p, n) == [src |-> p, tag |-> "",        val |-> n]
StderrLine_m(p, n) == [src |-> p, tag |-> "", val |-> n]
StderrLine(p, n) == [src |-> p, tag |-> "ERROR: ", val |-> n]
ExitLine(p, c)   == [src |-> p, tag |-> "Process exited with code ", val |-> c]

\* StreamReader.at_eof(): the pipe is closed and everything written was read
at_eof_stdout(p) == procs[p].closed /\ procs[p].outLeft = 0
at_eof_stderr(p) == procs[p].closed /\ procs[p].errLeft = 0

\* process.returncode is not None
HasExited(p) == procs[p].returncode # <<>>

\* the subprocess transport has finished (exit seen and pipes disconnected):
\* from then on process.kill() raises ProcessLookupError
TransportFinished(p) == HasExited(p) /\ procs[p].closed

\* what the commands clients run do: print to stdout and succeed, or complain on
\* stderr and fail (bad: the number of the stdout line that is not UTF-8, if any)
Scripts ==
  {[out |-> OutLines, err |-> 0, code |-> SuccessCode, bad |-> 0],
   [out |-> 0, err |-> ErrLines, code |-> FailureCode, bad |-> 0]}

\* commands with more to say: one prints on both streams and fails, one prints
\* a line that is not UTF-8 and then a line that is
LongScripts ==
  {[out |-> OutLines + 1, err |-> ErrLines + 1, code |-> FailureCode, bad |-> 0],
   [out |-> OutLines + 1, err |-> 0, code |-> SuccessCode, bad |-> 1]}

NewProcess(script) ==
  [returncode |-> <<>>, killed |-> FALSE, closed |-> FALSE,
   outLeft |-> script.out, errLeft |-> script.err, script |-> script,
   stdin |-> <<>>]

\* the elements of a list
Range(seq) == {seq[i] : i \in DOMAIN seq}

\* the processes started under key k
Under(k) == {p \in DOMAIN startedUnder : startedUnder[p] = k}

\* ------------------------------------------------------ handler coroutines
\* a handler suspended at an await
Handler(ch, id, method, key, pid, tid, pc) ==
  [ch |-> ch, id |-> id, method |-> method, key |-> key, pid |-> pid,
   tid |-> tid, pc |-> pc]

\* websocket_endpoint awaits the handler it called: the loop reads no further
\* frame of this channel until the handler returns
AwaitHandler_m == "recv"
AwaitHandler == "busy"

\* the handler h suspends / the suspended handler h returns to websocket_endpoint
Suspend(h) ==
  /\ handlers' = handlers \cup {h}
  /\ loop' = [loop EXCEPT ![h.ch] = AwaitHandler]
Return_m(h) ==
  /\ handlers' = handlers \ {h}
  /\ loop' = [loop EXCEPT ![h.ch] = "closed"]
Return(h) ==
  /\ handlers' = handlers \ {h}
  /\ loop' = [loop EXCEPT ![h.ch] = "recv"]

\* params.get("processId", default) as a dictionary key
KeyOf(processId, default) == IF processId = Absent THEN default ELSE processId

\* ------------------------------------------- handle_start_long_running_command
\* up to the await of create_subprocess_shell
handle_start_long_running_command(ws, message_id, params) ==
  /\ Cardinality(DOMAIN procs)
       + Cardinality({h \in handlers : h.method = "startLongRunningCommand"}) < MaxProcs
  /\ Suspend(Handler(ws, message_id, "startLongRunningCommand",
                     KeyOf(params.processId, message_id), 0, 0, "spawn"))
  /\ event' = Read(ws, message_id, "startLongRunningCommand")
  /\ UNCHANGED <<active_connections, procVars, termVars>>

\* what is left of the attempt when create_subprocess_shell raised
SpawnFailure_m(process_id) ==
  /\ process_output_buffers' = Put(process_output_buffers, process_id, <<>>)
  /\ UNCHANGED <<running_processes, procs, pumps, startedUnder, returned,
                 reapedSince, quiet>>
SpawnFailure(process_id) == UNCHANGED procVars

\* what the handler stores once the child exists
StoreProcess(process_id, p) ==
  /\ running_processes' = Put(running_processes, process_id, p)
  /\ process_output_buffers' = Put(process_output_buffers, process_id, <<>>)

\* create_subprocess_shell returned a child running script: store the process,
\* start the pump, answer
Spawned(h, script) ==
  /\ h \in handlers /\ h.method = "startLongRunningCommand" /\ h.pc = "spawn"
  /\ LET p == Cardinality(DOMAIN procs) + 1 IN
       /\ procs' = Put(procs, p, NewProcess(script))
       /\ StoreProcess(h.key, p)
       /\ pumps' = Put(pumps, p, [key |-> h.key, pc |-> "running"])
       /\ startedUnder' = Put(startedUnder, p, h.key)
       /\ quiet' = quiet \ Under(h.key)
       /\ UNCHANGED <<returned, reapedSince>>
  /\ event' = send_response(Resume(h), h.id,
                [NoResult EXCEPT !.processId = h.key, !.status = "started"], h.ch)
  /\ Return(h)
  /\ UNCHANGED <<active_connections, termVars>>

\* the child runs one of the short commands
StartSpawned(h) == \E script \in Scripts : Spawned(h, script)

\* create_subprocess_shell raised: except Exception -> send_error 500
SpawnFailed(h) ==
  /\ h \in handlers /\ h.method = "startLongRunningCommand" /\ h.pc = "spawn"
  /\ event' = send_error(Resume(h), h.id, 500, <<"spawn failed">>, h.ch)
  /\ Return(h)
  /\ SpawnFailure(h.key)
  /\ UNCHANGED <<active_connections, termVars>>

\* ------------------------------------------------------ collect_process_output
\* the test at the top of the loop: the process can be reaped
Reapable_m(p) == HasExited(p)
Reapable(p) == at_eof_stdout(p) /\ at_eof_stderr(p) /\ HasExited(p)

\* the pump of process p, key k, appends a line to the buffer of its key
PumpAppend_m(p, line) ==
  process_output_buffers' =
    [k \in DOMAIN process_output_buffers |-> Append(process_output_buffers[k], line)]
PumpAppend(p, line) ==
  process_output_buffers' =
    [process_output_buffers EXCEPT ![pumps[p].key] = Append(@, line)]

\* stdout_line.decode() succeeds on the n-th stdout line of process p
Decodable_m(p, n) == TRUE
Decodable(p, n) == n # procs[p].script.bad

\* The loop polls: wait_for(readline, 0.1) on stdout, on stderr, sleep(0.1), test.
\* A poll that times out or meets end of stream changes nothing, so the pump is
\* at any time free to take whichever of its three effects is possible.

\* top of the loop: both streams at end and the exit code known: record it, reap
PumpReap(p) ==
  /\ p \in DOMAIN pumps /\ pumps[p].pc = "running"
  /\ Reapable(p)
  /\ PumpAppend(p, ExitLine(p, procs[p].returncode[1]))
  /\ IF pumps[p].key \in DOMAIN running_processes
       THEN /\ running_processes' = Del(running_processes, pumps[p].key)
            /\ pumps' = [pumps EXCEPT ![p].pc = "done"]
       ELSE \* del raises KeyError: the task ends with the exception
            /\ pumps' = [pumps EXCEPT ![p].pc = "failed"]
            /\ UNCHANGED running_processes
  /\ reapedSince' = reapedSince \cup {p}
  /\ UNCHANGED <<active_connections, loop, handlers, procs, startedUnder,
                 returned, quiet, termVars>>
  /\ event' = NoEvent

\* wait_for(process.stdout.readline(), 0.1) returned a line
PumpStdout(p) ==
  /\ p \in DOMAIN pumps /\ pumps[p].pc = "running"
  /\ procs[p].outLeft > 0
  /\ LET n == procs[p].script.out - procs[p].outLeft + 1 IN
       IF Decodable(p, n)
         THEN /\ PumpAppend(p, StdoutLine(p, n))
              /\ UNCHANGED pumps
         ELSE \* stdout_line.decode() raises UnicodeDecodeError, which nothing
              \* catches: the task ends with the exception
              /\ pumps' = [pumps EXCEPT ![p].pc = "failed"]
              /\ UNCHANGED process_output_buffers
  /\ procs' = [procs EXCEPT ![p].outLeft = @ - 1]
  /\ UNCHANGED <<active_connections, loop, handlers, running_processes,
                 startedUnder, returned, reapedSince, quiet, termVars>>
  /\ event' = NoEvent

\* wait_for(process.stderr.readline(), 0.1) returned a line
PumpStderr(p) ==
  /\ p \in DOMAIN pumps /\ pumps[p].pc = "running"
  /\ procs[p].errLeft > 0
  /\ PumpAppend(p, StderrLine(p, procs[p].script.err - procs[p].errLeft + 1))
  /\ procs' = [procs EXCEPT ![p].errLeft = @ - 1]
  /\ UNCHANGED <<active_connections, loop, handlers, running_processes, pumps,
                 startedUnder, returned, reapedSince, quiet, termVars>>
  /\ event' = NoEvent

collect_process_output(p) == PumpReap(p) \/ PumpStdout(p) \/ PumpStderr(p)

\* ------------------------------------------------------- the child processes
\* the child closes its stdout and stderr (it has written all its lines)
ProcClose(p) ==
  /\ p \in DOMAIN procs /\ ~procs[p].closed
  /\ procs' = [procs EXCEPT ![p].closed = TRUE]
  /\ UNCHANGED <<active_connections, loop, handlers, running_processes,
                 process_output_buffers, pumps, startedUnder, returned, reapedSince, quiet,
                 termVars>>
  /\ event' = NoEvent

\* the event loop learns that the child has exited
ProcExit(p) ==
  /\ p \in DOMAIN procs /\ ~HasExited(p)
  /\ procs' = [procs EXCEPT ![p].returncode =
                IF procs[p].killed THEN <<KilledCode>> ELSE <<procs[p].script.code>>]
  /\ UNCHANGED <<active_connections, loop, handlers, running_processes,
                 process_output_buffers, pumps, startedUnder, returned, reapedSince, quiet,
                 termVars>>
  /\ event' = NoEvent

\* the reply of getProcessOutput and killProcess to a key they do not find
ProcessNotFound_n(ev, message_id, process_id, websocket) ==
  send_error(ev, message_id, 400, <<"Process ", process_id, " not found">>, websocket)
ProcessNotFound_m(ev, message_id, process_id, websocket) ==
  send_response(ev, message_id, [NoResult EXCEPT !.status = "killed"], websocket)
ProcessNotFound(ev, message_id, process_id, websocket) ==
  send_error(ev, message_id, 404, <<"Process ", process_id, " not found">>, websocket)

\* -------------------------------------------------- handle_get_process_output
\* the lines the handler returns, and what it leaves in the buffer
DrainedLines(process_id) == process_output_buffers[process_id]
BufferAfterDrain(process_id) == <<>>

handle_get_process_output(ws, message_id, params) ==
  LET l0 == Read(ws, message_id, "getProcessOutput")
      process_id == KeyOf(params.processId, "")
  IN
  /\ IF params.processId = Unhashable
       THEN \* "in" on the dict raises TypeError, outside any try of the handler:
            \* websocket_endpoint prints it and reads the next frame
            /\ event' = Raised(l0)
            /\ UNCHANGED <<process_output_buffers, returned, reapedSince, quiet>>
       ELSE IF process_id \notin DOMAIN process_output_buffers
       THEN /\ event' = ProcessNotFound(l0, message_id, process_id, ws)
            /\ UNCHANGED <<process_output_buffers, returned, reapedSince, quiet>>
       ELSE /\ process_output_buffers' =
                 [process_output_buffers EXCEPT ![process_id] = BufferAfterDrain(process_id)]
            /\ event' = send_response(l0, message_id,
                         [NoResult EXCEPT
                            !.output = DrainedLines(process_id),
                            !.isRunning = (process_id \in DOMAIN running_processes)],
                         ws)
            /\ returned' = returned \cup Range(DrainedLines(process_id))
            /\ reapedSince' = reapedSince \ Under(process_id)
            /\ quiet' = quiet \cup (reapedSince \cap Under(process_id))
  /\ UNCHANGED <<active_connections, loop, handlers, running_processes, procs,
                 pumps, startedUnder, termVars>>

\* --------------------------------------------------------- handle_kill_process
\* the clean-up after process.wait()
KillCleanup(process_id) ==
  IF process_id \in DOMAIN running_processes
    THEN Del(running_processes, process_id) ELSE running_processes

KilledResult == [NoResult EXCEPT !.status = "killed"]

\* up to the await of process.wait(), and through it when it does not suspend
handle_kill_process(ws, message_id, params) ==
  LET l0 == Read(ws, message_id, "killProcess")
      process_id == KeyOf(params.processId, "")
  IN
  IF params.processId = Unhashable
    THEN \* TypeError outside the try: no reply
         /\ event' = Raised(l0)
         /\ UNCHANGED <<active_connections, loop, handlers, procVars, termVars>>
  ELSE IF process_id \notin DOMAIN running_processes
    THEN /\ event' = ProcessNotFound(l0, message_id, process_id, ws)
         /\ UNCHANGED <<active_connections, loop, handlers, procVars, termVars>>
  ELSE LET p == running_processes[process_id] IN
       \/ \* the transport has finished: kill() raises ProcessLookupError
          /\ TransportFinished(p)
          /\ event' = send_error(l0, message_id, 500, <<"ProcessLookupError">>, ws)
          /\ UNCHANGED <<active_connections, loop, handlers, procVars, termVars>>
       \/ \* the exit is known already: kill() sends nothing, wait() returns at once
          /\ HasExited(p) /\ ~TransportFinished(p)
          /\ running_processes' = KillCleanup(process_id)
          /\ event' = send_response(l0, message_id, KilledResult, ws)
          /\ UNCHANGED <<active_connections, loop, handlers, process_output_buffers,
                         procs, pumps, startedUnder, returned, reapedSince, quiet,
                         termVars>>
       \/ \* SIGKILL is sent and the handler waits for the exit
          /\ ~HasExited(p)
          /\ procs' = [procs EXCEPT ![p].killed = TRUE]
          /\ Suspend(Handler(ws, message_id, "killProcess", process_id, p, 0, "wait"))
          /\ event' = l0
          /\ UNCHANGED <<active_connections, running_processes,
                         process_output_buffers, pumps, startedUnder, returned,
                         reapedSince, quiet, termVars>>

\* process.wait() returned: clean up and answer
\* the condition under which the await of process.wait() ends
WaitOver_m(p) == TRUE
WaitOver(p) == HasExited(p)

KillReturn(h) ==
  /\ h \in handlers /\ h.method = "killProcess" /\ h.pc = "wait"
  /\ WaitOver(h.pid)
  /\ running_processes' = KillCleanup(h.key)
  /\ event' = send_response(Resume(h), h.id, KilledResult, h.ch)
  /\ Return(h)
  /\ UNCHANGED <<active_connections, process_output_buffers, procs, pumps,
                 startedUnder, returned, reapedSince, quiet, termVars>>

\* ------------------------------------- handle_clojure_repl (clojure_extension)
\* code_with_newline = code + "\n", as written to the stdin of the process
code_with_newline_m(code) == <<code>>
code_with_newline(code) == <<code, "\n">>

\* the reply of the eval action to a key that is not in the live set
ReplNotFound_m(ev, message_id, process_id, websocket) ==
  send_error(ev, message_id, 400, <<"REPL process ", process_id, " not found">>, websocket)
ReplNotFound(ev, message_id, process_id, websocket) ==
  send_error(ev, message_id, 404, <<"REPL process ", process_id, " not found">>, websocket)

\* The eval action, up to the await of stdin.drain() and through it when it
\* raises. The start and stop actions delegate to the handlers of
\* startLongRunningCommand and killProcess.
handle_clojure_repl(ws, message_id, params) ==
  LET l0 == Read(ws, message_id, "clojureRepl")
      action == KeyOf(params.action, "start")
      process_id == KeyOf(params.processId, "")
      code == KeyOf(params.code, "")
  IN
  IF action = "start"
    THEN handle_start_long_running_command(ws, message_id,
           [params EXCEPT !.processId = "clj_repl_" \o message_id])
  ELSE IF action = "eval" /\ process_id # "" /\ code # ""
    THEN IF process_id \notin DOMAIN running_processes
           THEN /\ event' = ReplNotFound(l0, message_id, process_id, ws)
                /\ UNCHANGED <<active_connections, loop, handlers, procVars, termVars>>
           ELSE LET p == running_processes[process_id] IN
                /\ Len(procs[p].stdin) < MaxInput
                /\ procs' = [procs EXCEPT ![p].stdin = Append(@, code_with_newline(code))]
                /\ \/ \* the process has gone: drain() raises ConnectionResetError
                      /\ HasExited(p)
                      /\ event' = send_error(l0, message_id, 500, <<"Connection lost">>, ws)
                      /\ UNCHANGED <<active_connections, loop, handlers>>
                   \/ \* the bytes are handed over: asyncio.sleep(0.5)
                      /\ Suspend(Handler(ws, message_id, "clojureRepl", process_id, p,
                                         0, "settle"))
                      /\ event' = l0
                      /\ UNCHANGED active_connections
                /\ UNCHANGED <<running_processes, process_output_buffers, pumps,
                               startedUnder, returned, reapedSince, quiet, termVars>>
  ELSE IF action = "stop" /\ process_id # ""
    THEN handle_kill_process(ws, message_id, [params EXCEPT !.processId = process_id])
  ELSE /\ event' = send_error(l0, message_id, 400,
                      <<"Invalid REPL action or missing parameters">>, ws)
       /\ UNCHANGED <<active_connections, loop, handlers, procVars, termVars>>

\* what the eval action leaves in the buffer it has copied
BufferAfterEval_m(output_lines) == output_lines
BufferAfterEval(output_lines) == <<>>

\* after the sleep: copy the buffer of the key, empty it, answer. The result is
\* the copied lines joined by newlines: the model keeps them as the list.
EvalSettled(h) ==
  /\ h \in handlers /\ h.method = "clojureRepl" /\ h.pc = "settle"
  /\ LET output_lines == process_output_buffers[h.key] IN
       /\ process_output_buffers' =
            [process_output_buffers EXCEPT ![h.key] = BufferAfterEval(output_lines)]
       /\ event' = send_response(Resume(h), h.id,
                     [NoResult EXCEPT !.output = output_lines, !.processId = h.key],
                     h.ch)
       /\ returned' = returned \cup Range(output_lines)
  /\ reapedSince' = reapedSince \ Under(h.key)
  /\ quiet' = quiet \cup (reapedSince \cap Under(h.key))
  /\ Return(h)
  /\ UNCHANGED <<active_connections, running_processes, procs, pumps,
                 startedUnder, termVars>>

\* ------------------------------------------------------------ terminal sessions
NewShell == [returncode |-> <<>>, killed |-> FALSE, nread |-> 0, stdin |-> <<>>]

ShellExited(t) == shells[t].returncode # <<>>
ShellLine(t, n) == [src |-> t, val |-> n]

\* the lines a read loop (readline until timeout) can collect from shell t
ReadLoop(t) ==
  {[n \in 1 .. m |-> ShellLine(t, shells[t].nread + n)] :
     m \in 0 .. (ShellLines - shells[t].nread)}

\* handle_create_terminal_session, up to the await of create_subprocess_exec
handle_create_terminal_session(ws, message_id, params) ==
  /\ Cardinality(DOMAIN shells)
       + Cardinality({h \in handlers : h.method = "createTerminalSession"
                                        /\ h.pc = "spawn"}) < MaxSessions
  /\ Suspend(Handler(ws, message_id, "createTerminalSession", "", 0, 0, "spawn"))
  /\ event' = Read(ws, message_id, "createTerminalSession")
  /\ UNCHANGED <<active_connections, procVars, termVars>>

\* "Set as current terminal if it's the first one"
CurrentAfterCreate_m(terminal_id) == terminal_id
CurrentAfterCreate(terminal_id) ==
  IF _current_terminal_id = NoTerminal THEN terminal_id ELSE _current_terminal_id

\* the shell exists: store the session, set the pointer, sleep 0.5 s
CreateSpawned(h) ==
  /\ h \in handlers /\ h.method = "createTerminalSession" /\ h.pc = "spawn"
  /\ LET terminal_id == Cardinality(DOMAIN shells) + 1 IN
       /\ shells' = Put(shells, terminal_id, NewShell)
       /\ _active_terminals' =
            Put(_active_terminals, terminal_id, [process |-> terminal_id, output |-> <<>>])
       /\ _current_terminal_id' = CurrentAfterCreate(terminal_id)
       /\ handlers' = (handlers \ {h}) \cup {[h EXCEPT !.tid = terminal_id, !.pc = "settle"]}
  /\ UNCHANGED <<active_connections, loop, procVars>>
  /\ event' = NoEvent

\* create_subprocess_exec raised: send_error 500
CreateSpawnFailed(h) ==
  /\ h \in handlers /\ h.method = "createTerminalSession" /\ h.pc = "spawn"
  /\ event' = send_error(Resume(h), h.id, 500, <<"spawn failed">>, h.ch)
  /\ Return(h)
  /\ UNCHANGED <<active_connections, procVars, termVars>>

\* after the sleep: collect the initial output, store it, answer
CreateSettled(h) ==
  /\ h \in handlers /\ h.method = "createTerminalSession" /\ h.pc = "settle"
  /\ \E initial_output \in ReadLoop(h.tid) :
       /\ shells' = [shells EXCEPT ![h.tid].nread = @ + Len(initial_output)]
       /\ IF h.tid \in DOMAIN _active_terminals
            THEN /\ _active_terminals' =
                      [_active_terminals EXCEPT ![h.tid].output = @ \o initial_output]
                 /\ event' = send_response(Resume(h), h.id,
                               [NoResult EXCEPT !.status = "created"], h.ch)
            ELSE \* the session was closed meanwhile: KeyError -> send_error 500
                 /\ UNCHANGED _active_terminals
                 /\ event' = send_error(Resume(h), h.id, 500, <<"KeyError">>, h.ch)
  /\ Return(h)
  /\ UNCHANGED <<active_connections, _current_terminal_id, procVars>>

\* _current_terminal_id = terminal_id
CurrentAfterSwitch_m(terminal_id) == _current_terminal_id
CurrentAfterSwitch(terminal_id) == terminal_id

\* handle_switch_terminal_session: no await before the reply
handle_switch_terminal_session(ws, message_id, params) ==
  LET l0 == Read(ws, message_id, "switchTerminalSession")
      terminal_id == params.terminalId
  IN
  /\ IF terminal_id = NoTerminal
       THEN /\ event' = send_error(l0, message_id, 400, <<"Terminal ID is required">>, ws)
            /\ UNCHANGED _current_terminal_id
       ELSE IF terminal_id \notin DOMAIN _active_terminals
       THEN /\ event' = send_error(l0, message_id, 404,
                         <<"Terminal session with ID ", ToString(terminal_id), " not found">>, ws)
            /\ UNCHANGED _current_terminal_id
       ELSE /\ _current_terminal_id' = CurrentAfterSwitch(terminal_id)
            /\ event' = send_response(l0, message_id,
                          [NoResult EXCEPT !.status = "switched"], ws)
  /\ UNCHANGED <<active_connections, loop, handlers, _active_terminals, shells, procVars>>

\* "Reset current terminal if this was the current one"
CurrentAfterClose_n(terminal_id, remaining) ==
  IF terminal_id = _current_terminal_id THEN NoTerminal ELSE _current_terminal_id
CurrentAfterClose_m(terminal_id, remaining) == _current_terminal_id
CurrentAfterClose(terminal_id, remaining) ==
  IF terminal_id = _current_terminal_id
    THEN IF remaining # {}
           THEN CHOOSE t \in remaining : \A u \in remaining : t <= u  \* next(iter(dict))
           ELSE NoTerminal
    ELSE _current_terminal_id

CloseFinish_m(l, ws, message_id, terminal_id) ==
  /\ _active_terminals' = Del(_active_terminals, terminal_id)
  /\ _current_terminal_id' =
       CurrentAfterClose(terminal_id, DOMAIN _active_terminals \ {terminal_id})
  /\ event' = send_response(l, message_id, [NoResult EXCEPT !.status = "closed"], ws)

\* the part of handle_close_terminal_session after process.wait():
\* new value of <<_active_terminals, _current_terminal_id>> and the reply
CloseFinish(l, ws, message_id, terminal_id) ==
  IF terminal_id \in DOMAIN _active_terminals
    THEN /\ _active_terminals' = Del(_active_terminals, terminal_id)
         /\ _current_terminal_id' =
              CurrentAfterClose(terminal_id, DOMAIN _active_terminals \ {terminal_id})
         /\ event' = send_response(l, message_id, [NoResult EXCEPT !.status = "closed"], ws)
    ELSE \* del raises KeyError: send_error 500
         /\ UNCHANGED <<_active_terminals, _current_terminal_id>>
         /\ event' = send_error(l, message_id, 500, <<"KeyError">>, ws)

\* handle_close_terminal_session, up to the await of process.wait(), and through
\* it when it does not suspend
handle_close_terminal_session(ws, message_id, params) ==
  LET l0 == Read(ws, message_id, "closeTerminalSession")
      terminal_id == IF params.terminalId = NoTerminal
                       THEN _current_terminal_id ELSE params.terminalId
  IN
  IF terminal_id = NoTerminal
    THEN /\ event' = send_error(l0, message_id, 400, <<"No active terminal session">>, ws)
         /\ UNCHANGED <<active_connections, loop, handlers, procVars, termVars>>
  ELSE IF terminal_id \notin DOMAIN _active_terminals
    THEN /\ event' = send_error(l0, message_id, 404,
                      <<"Terminal session with ID ", ToString(terminal_id), " not found">>, ws)
         /\ UNCHANGED <<active_connections, loop, handlers, procVars, termVars>>
  ELSE LET t == _active_terminals[terminal_id].process IN
       \/ \* the shell's transport has finished: kill() raises ProcessLookupError
          /\ ShellExited(t)
          /\ event' = send_error(l0, message_id, 500, <<"ProcessLookupError">>, ws)
          /\ UNCHANGED <<active_connections, loop, handlers, procVars, termVars>>
       \/ \* the exit is known already: wait() returns at once
          /\ ShellExited(t)
          /\ CloseFinish(l0, ws, message_id, terminal_id)
          /\ UNCHANGED <<active_connections, loop, handlers, shells, procVars>>
       \/ \* SIGKILL is sent and the handler waits for the exit
          /\ ~ShellExited(t)
          /\ shells' = [shells EXCEPT ![t].killed = TRUE]
          /\ Suspend(Handler(ws, message_id, "closeTerminalSession", "", 0,
                             terminal_id, "wait"))
          /\ event' = l0
          /\ UNCHANGED <<active_connections, _active_terminals, _current_terminal_id,
                         procVars>>

\* process.wait() returned
CloseReturn(h) ==
  /\ h \in handlers /\ h.method = "closeTerminalSession" /\ h.pc = "wait"
  /\ ShellExited(h.tid)
  /\ CloseFinish(Resume(h), h.ch, h.id, h.tid)
  /\ Return(h)
  /\ UNCHANGED <<active_connections, shells, procVars>>

\* the event loop learns that a shell has exited (killed, or on its own)
ShellExit(t) ==
  /\ t \in DOMAIN shells /\ ~ShellExited(t)
  /\ shells' = [shells EXCEPT ![t].returncode =
                  IF shells[t].killed THEN <<KilledCode>> ELSE <<SuccessCode>>]
  /\ UNCHANGED <<active_connections, loop, handlers, _active_terminals,
                 _current_terminal_id, procVars>>
  /\ event' = NoEvent

\* params.get("terminalId", _current_terminal_id)
TerminalOf(params) ==
  IF params.terminalId = NoTerminal THEN _current_terminal_id ELSE params.terminalId

\* the replies of the handlers that resolve a session and do not find one
NoActiveSession_m(l, message_id, ws) ==
  send_error(l, message_id, 404, <<"No active terminal session">>, ws)
NoActiveSession(l, message_id, ws) ==
  send_error(l, message_id, 400, <<"No active terminal session">>, ws)
SessionNotFound_m(l, message_id, terminal_id, ws) ==
  send_response(l, message_id, [NoResult EXCEPT !.status = "cleared"], ws)
SessionNotFound(l, message_id, terminal_id, ws) ==
  send_error(l, message_id, 404,
             <<"Terminal session with ID ", ToString(terminal_id), " not found">>, ws)

\* the keys of a dict in the order of iteration: the order of insertion, and
\* sessions are inserted in the order of their ids
RECURSIVE Ascending(_)
Ascending(S) ==
  IF S = {} THEN <<>>
  ELSE LET m == CHOOSE x \in S : \A y \in S : x <= y
       IN <<m>> \o Ascending(S \ {m})

\* the entry of listTerminalSessions for one session
SessionEntry_m(terminal_id) ==
  [terminalId |-> terminal_id,
   isCurrent |-> TRUE,
   outputLineCount |-> Len(_active_terminals[terminal_id].output)]
SessionEntry(terminal_id) ==
  [terminalId |-> terminal_id,
   isCurrent |-> (terminal_id = _current_terminal_id),
   outputLineCount |-> Len(_active_terminals[terminal_id].output)]

\* handle_list_terminal_sessions: no await before the reply
handle_list_terminal_sessions(ws, message_id, params) ==
  LET keys == Ascending(DOMAIN _active_terminals)
      sessions == [i \in DOMAIN keys |-> SessionEntry(keys[i])]
  IN
  /\ event' = send_response(Read(ws, message_id, "listTerminalSessions"), message_id,
                 [NoResult EXCEPT !.status = "sessions", !.output = sessions], ws)
  /\ UNCHANGED <<active_connections, loop, handlers, procVars, termVars>>

\* f"{text}\n".encode(): the bytes of one line
LineBytes(text) == <<text, "\n">>

\* terminal['process'].stdin.write(data)
StdinWrite(t, data) == [shells EXCEPT ![t].stdin = Append(@, data)]

\* handle_write_to_terminal, up to the await of asyncio.sleep(0.2)
handle_write_to_terminal(ws, message_id, params) ==
  LET l0 == Read(ws, message_id, "writeToTerminal")
      text == IF params.text = Absent THEN "" ELSE params.text
      terminal_id == TerminalOf(params)
  IN
  IF text = ""
    THEN /\ event' = send_error(l0, message_id, 400, <<"Text to write is required">>, ws)
         /\ UNCHANGED <<active_connections, loop, handlers, procVars, termVars>>
  ELSE IF terminal_id = NoTerminal
    THEN /\ event' = NoActiveSession(l0, message_id, ws)
         /\ UNCHANGED <<active_connections, loop, handlers, procVars, termVars>>
  ELSE IF terminal_id \notin DOMAIN _active_terminals
    THEN /\ event' = SessionNotFound(l0, message_id, terminal_id, ws)
         /\ UNCHANGED <<active_connections, loop, handlers, procVars, termVars>>
  ELSE LET t == _active_terminals[terminal_id].process IN
       /\ Len(shells[t].stdin) < MaxInput
       /\ shells' = StdinWrite(t, LineBytes(text))
       /\ \/ \* the shell has gone: drain() raises ConnectionResetError
             /\ ShellExited(t)
             /\ event' = send_error(l0, message_id, 500, <<"Connection lost">>, ws)
             /\ UNCHANGED <<active_connections, loop, handlers, _active_terminals,
                            _current_terminal_id, procVars>>
          \/ /\ Suspend(Handler(ws, message_id, "writeToTerminal", "", 0,
                                terminal_id, "settle"))
             /\ event' = l0
             /\ UNCHANGED <<active_connections, _active_terminals,
                            _current_terminal_id, procVars>>

\* terminal['output'].extend(output): terminal is the session the handler
\* resolved, in the map or closed meanwhile
Extend_m(terminal_id, output) ==
  IF terminal_id \in DOMAIN _active_terminals
    THEN [_active_terminals EXCEPT ![terminal_id].output = output \o @]
    ELSE _active_terminals
Extend(terminal_id, output) ==
  IF terminal_id \in DOMAIN _active_terminals
    THEN [_active_terminals EXCEPT ![terminal_id].output = @ \o output]
    ELSE _active_terminals

\* after the sleep: collect the output, store it in the history, answer
WriteSettled(h) ==
  /\ h \in handlers /\ h.method = "writeToTerminal" /\ h.pc = "settle"
  /\ \E output \in ReadLoop(h.tid) :
       /\ shells' = [shells EXCEPT ![h.tid].nread = @ + Len(output)]
       /\ _active_terminals' = Extend(h.tid, output)
       /\ event' = send_response(Resume(h), h.id,
                     [NoResult EXCEPT !.status = "written", !.output = output], h.ch)
  /\ Return(h)
  /\ UNCHANGED <<active_connections, _current_terminal_id, procVars>>

\* terminal['output'][-line_count:] and terminal['output'][:line_count]
SliceFrom(seq, start) ==
  LET first == IF start < 0 THEN (IF Len(seq) + start < 0 THEN 0 ELSE Len(seq) + start)
               ELSE (IF start > Len(seq) THEN Len(seq) ELSE start)
  IN SubSeq(seq, first + 1, Len(seq))
SliceTo(seq, stop) ==
  LET last == IF stop < 0 THEN (IF Len(seq) + stop < 0 THEN 0 ELSE Len(seq) + stop)
              ELSE (IF stop > Len(seq) THEN Len(seq) ELSE stop)
  IN SubSeq(seq, 1, last)

\* "Get the requested lines"
Window(output, line_count, from_end) ==
  IF from_end
    THEN IF output # <<>> THEN SliceFrom(output, 0 - line_count) ELSE <<>>
    ELSE IF output # <<>> THEN SliceTo(output, line_count) ELSE <<>>

\* the session map after a read of the history: the slice is a new list
HistoryAfterRead_m(terminal_id) ==
  [_active_terminals EXCEPT ![terminal_id].output = <<>>]
HistoryAfterRead(terminal_id) == _active_terminals

\* handle_read_terminal_output: no await before the reply
handle_read_terminal_output(ws, message_id, params) ==
  LET l0 == Read(ws, message_id, "readTerminalOutput")
      terminal_id == TerminalOf(params)
  IN
  /\ IF terminal_id = NoTerminal
       THEN /\ event' = NoActiveSession(l0, message_id, ws)
            /\ UNCHANGED _active_terminals
       ELSE IF terminal_id \notin DOMAIN _active_terminals
       THEN /\ event' = SessionNotFound(l0, message_id, terminal_id, ws)
            /\ UNCHANGED _active_terminals
       ELSE /\ event' = send_response(l0, message_id,
                          [NoResult EXCEPT
                             !.status = "read",
                             !.output = Window(_active_terminals[terminal_id].output,
                                               params.lineCount, params.fromEnd)], ws)
            /\ _active_terminals' = HistoryAfterRead(terminal_id)
  /\ UNCHANGED <<active_connections, loop, handlers, procVars,
                 _current_terminal_id, shells>>

\* terminal['output'] = []
ClearedOutput_m(output) == output
ClearedOutput(output) == <<>>

\* handle_clear_terminal_output: no await before the reply
handle_clear_terminal_output(ws, message_id, params) ==
  LET l0 == Read(ws, message_id, "clearTerminalOutput")
      terminal_id == TerminalOf(params)
  IN
  /\ IF terminal_id = NoTerminal
       THEN /\ event' = NoActiveSession(l0, message_id, ws)
            /\ UNCHANGED _active_terminals
       ELSE IF terminal_id \notin DOMAIN _active_terminals
       THEN /\ event' = SessionNotFound(l0, message_id, terminal_id, ws)
            /\ UNCHANGED _active_terminals
       ELSE /\ _active_terminals' =
                 [_active_terminals EXCEPT ![terminal_id].output = ClearedOutput(@)]
            /\ event' = send_response(l0, message_id,
                          [NoResult EXCEPT !.status = "cleared"], ws)
  /\ UNCHANGED <<active_connections, loop, handlers, procVars,
                 _current_terminal_id, shells>>

\* ctrl_chars
ctrl_chars_m == [c |-> 3, d |-> 4, z |-> 26, l |-> 12, a |-> 1, e |-> 5, u |-> 18, r |-> 21]
ctrl_chars == [c |-> 3, d |-> 4, z |-> 26, l |-> 12, a |-> 1, e |-> 5, u |-> 21, r |-> 18]

\* character.lower(), on the characters clients send
Lower(character) ==
  CASE character = "C" -> "c"
    [] character = "R" -> "r"
    [] character = "X" -> "x"
    [] OTHER -> character

\* handle_send_control_character, up to the await of asyncio.sleep(0.2)
handle_send_control_character(ws, message_id, params) ==
  LET l0 == Read(ws, message_id, "sendControlCharacter")
      character == IF params.character = Absent THEN "" ELSE params.character
      terminal_id == TerminalOf(params)
  IN
  IF character = ""
    THEN /\ event' = send_error(l0, message_id, 400, <<"Control character is required">>, ws)
         /\ UNCHANGED <<active_connections, loop, handlers, procVars, termVars>>
  ELSE IF terminal_id = NoTerminal
    THEN /\ event' = NoActiveSession(l0, message_id, ws)
         /\ UNCHANGED <<active_connections, loop, handlers, procVars, termVars>>
  ELSE IF terminal_id \notin DOMAIN _active_terminals
    THEN /\ event' = SessionNotFound(l0, message_id, terminal_id, ws)
         /\ UNCHANGED <<active_connections, loop, handlers, procVars, termVars>>
  ELSE IF character = Unhashable
    THEN \* a JSON array has no lower(): AttributeError -> send_error 500
         /\ event' = send_error(l0, message_id, 500, <<"AttributeError">>, ws)
         /\ UNCHANGED <<active_connections, loop, handlers, procVars, termVars>>
  ELSE IF Lower(character) \notin DOMAIN ctrl_chars
    THEN /\ event' = send_error(l0, message_id, 400,
                        <<"Unsupported control character: ", character>>, ws)
         /\ UNCHANGED <<active_connections, loop, handlers, procVars, termVars>>
  ELSE LET t == _active_terminals[terminal_id].process
           char_code == ctrl_chars[Lower(character)]
       IN
       /\ Len(shells[t].stdin) < MaxInput
       /\ shells' = StdinWrite(t, <<char_code>>)
       /\ \/ \* the shell has gone: drain() raises ConnectionResetError
             /\ ShellExited(t)
             /\ event' = send_error(l0, message_id, 500, <<"Connection lost">>, ws)
             /\ UNCHANGED <<active_connections, loop, handlers, _active_terminals,
                            _current_terminal_id, procVars>>
          \/ /\ Suspend(Handler(ws, message_id, "sendControlCharacter", "", 0,
                                terminal_id, "settle"))
             /\ event' = l0
             /\ UNCHANGED <<active_connections, _active_terminals,
                            _current_terminal_id, procVars>>

\* after the sleep: collect the output, store it in the history, answer
ControlSettled(h) ==
  /\ h \in handlers /\ h.method = "sendControlCharacter" /\ h.pc = "settle"
  /\ \E output \in ReadLoop(h.tid) :
       /\ shells' = [shells EXCEPT ![h.tid].nread = @ + Len(output)]
       /\ _active_terminals' = Extend(h.tid, output)
       /\ event' = send_response(Resume(h), h.id,
                     [NoResult EXCEPT !.status = "sent", !.output = output], h.ch)
  /\ Return(h)
  /\ UNCHANGED <<active_connections, _current_terminal_id, procVars>>

\* ------------------------------------------------------------------ dispatch
\* METHOD_HANDLERS: the registered method names
RegisteredMethods ==
  {"startLongRunningCommand", "getProcessOutput", "killProcess",
   "createTerminalSession", "switchTerminalSession", "closeTerminalSession",
   "listTerminalSessions", "writeToTerminal", "readTerminalOutput",
   "sendControlCharacter", "clearTerminalOutput", "clojureRepl"}

\* a method name no module registers
UnknownMethods == {"noSuchMethod"}

Params(processId, terminalId) == [processId |-> processId, terminalId |-> terminalId]
Request(id, method, params) ==
  [type |-> "request", id |-> id, method |-> method, params |-> params]

\* the request id a client uses on its channel
RequestId(ws) == IF ws % 2 = 1 THEN "a" ELSE "b"

\* the request frames clients send to the process supervisor
ProcFrames(ws) ==
  {Request(RequestId(ws), "startLongRunningCommand", Params(k, NoTerminal)) :
     k \in Ids \cup {Absent}}
  \cup {Request(RequestId(ws), "getProcessOutput", Params(k, NoTerminal)) :
     k \in Ids \cup {Unhashable}}
  \cup {Request(RequestId(ws), "killProcess", Params(k, NoTerminal)) : k \in Ids}

\* the request frames clients send to the terminal sessions
TermFrames(ws) ==
  {Request(RequestId(ws), "createTerminalSession", Params(Absent, NoTerminal))}
  \cup {Request(RequestId(ws), m, Params(Absent, t)) :
     m \in {"switchTerminalSession", "closeTerminalSession"},
     t \in Tids \cup {NoTerminal}}

\* the parameters of the requests that write to or read from a session
ReplParams(terminalId, text, character, lineCount, fromEnd) ==
  [processId |-> Absent, terminalId |-> terminalId, text |-> text,
   character |-> character, lineCount |-> lineCount, fromEnd |-> fromEnd]

\* the texts clients write, and the characters they ask to send
Texts == {"", "echo a"}
Characters == DOMAIN ctrl_chars \cup {"C", "R", "x", "X", "cc", "", Unhashable}

\* the request frames clients send to write to and read from the sessions
ListFrames(ws) ==
  {Request(RequestId(ws), "listTerminalSessions", Params(Absent, NoTerminal))}
WriteFrames(ws) ==
  {Request(RequestId(ws), "writeToTerminal", ReplParams(t, text, Absent, 0, TRUE)) :
     t \in Tids \cup {NoTerminal}, text \in Texts}
ReadFrames(ws) ==
  {Request(RequestId(ws), "readTerminalOutput", ReplParams(t, Absent, Absent, n, e)) :
     t \in Tids \cup {NoTerminal}, n \in 0 .. MaxCount, e \in BOOLEAN}
ControlFrames(ws) ==
  {Request(RequestId(ws), "sendControlCharacter", ReplParams(t, Absent, c, 0, TRUE)) :
     t \in Tids \cup {NoTerminal}, c \in Characters}
ClearFrames(ws) ==
  {Request(RequestId(ws), "clearTerminalOutput", Params(Absent, t)) :
     t \in Tids \cup {NoTerminal}}
SwitchFrames(ws) ==
  {Request(RequestId(ws), "switchTerminalSession", Params(Absent, t)) : t \in Tids}
CreateFrames(ws) ==
  {Request(RequestId(ws), "createTerminalSession", Params(Absent, NoTerminal))}
CloseFrames(ws) ==
  {Request(RequestId(ws), "closeTerminalSession", Params(Absent, t)) :
     t \in Tids \cup {NoTerminal}}

\* the parameters of a clojureRepl request
EvalParams(action, processId, code) ==
  [processId |-> processId, terminalId |-> NoTerminal, action |-> action,
   code |-> code]

\* the forms clients evaluate
Codes == {"(+ 1 2)"}

\* the eval requests clients send to the processes they started
EvalFrames(ws) ==
  {Request(RequestId(ws), "clojureRepl", EvalParams("eval", k, code)) :
     k \in Ids, code \in Codes}

\* request frames naming a method that is not registered
UnknownFrames(ws) ==
  {Request(RequestId(ws), m, Params(Absent, NoTerminal)) : m \in UnknownMethods}

\* class MessageType
MessageType == {"request", "response", "error"}

\* a frame whose text is not JSON: json.loads raises and no field is read
NotJson == [type |-> "", id |-> "", method |-> "", params |-> Params(Absent, NoTerminal)]

\* well-formed messages that are not requests, and a frame that is not JSON
OtherFrames(ws) ==
  {[type |-> t, id |-> RequestId(ws), method |-> "", params |-> Params(Absent, NoTerminal)] :
     t \in {"response", "error"}}
  \cup {NotJson}

\* a request that also carries a populated result field
WithResult(message) ==
  [type |-> message.type, id |-> message.id, method |-> message.method,
   params |-> message.params, result |-> [status |-> "started"]]

\* request frames to the terminal sessions that carry a result as well
MalformedFrames(ws) == {WithResult(m) : m \in TermFrames(ws)}

\* json.loads(data) and Message(**message_data) return: the text is JSON and
\* names one of the message types; result and error are optional on every type
Decodes(message) == message.type \in MessageType

\* METHOD_HANDLERS.get(message.method) and the call of the handler
CallHandler(ws, message) ==
  CASE message.method = "startLongRunningCommand" ->
         handle_start_long_running_command(ws, message.id, message.params)
    [] message.method = "getProcessOutput" ->
         handle_get_process_output(ws, message.id, message.params)
    [] message.method = "killProcess" ->
         handle_kill_process(ws, message.id, message.params)
    [] message.method = "createTerminalSession" ->
         handle_create_terminal_session(ws, message.id, message.params)
    [] message.method = "switchTerminalSession" ->
         handle_switch_terminal_session(ws, message.id, message.params)
    [] message.method = "closeTerminalSession" ->
         handle_close_terminal_session(ws, message.id, message.params)
    [] message.method = "listTerminalSessions" ->
         handle_list_terminal_sessions(ws, message.id, message.params)
    [] message.method = "writeToTerminal" ->
         handle_write_to_terminal(ws, message.id, message.params)
    [] message.method = "readTerminalOutput" ->
         handle_read_terminal_output(ws, message.id, message.params)
    [] message.method = "sendControlCharacter" ->
         handle_send_control_character(ws, message.id, message.params)
    [] message.method = "clearTerminalOutput" ->
         handle_clear_terminal_output(ws, message.id, message.params)
    [] message.method = "clojureRepl" ->
         handle_clojure_repl(ws, message.id, message.params)

\* the reply to a request whose method is not registered
MethodNotFound_m(ws, message) ==
  Read(ws, message.id, message.method)
MethodNotFound(ws, message) ==
  send_error(Read(ws, message.id, message.method), message.id, 404,
             <<"Method '", message.method, "' not found">>, ws)

\* a frame that is not a request, or not a message, is dropped: nothing is sent
Ignored_m(ws, message) ==
  send_error(Read(ws, message.id, message.method), message.id, 400,
             <<"Invalid message">>, ws)
Ignored(ws, message) ==
  Raised(Read(ws, message.id, message.method))

\* one turn of the loop of websocket_endpoint: a frame is received and dispatched
websocket_endpoint(ws, message) ==
  /\ loop[ws] = "recv"
  /\ IF Decodes(message) /\ message.type = "request" /\ message.method # ""
       THEN IF message.method \in RegisteredMethods
              THEN CallHandler(ws, message)
              ELSE /\ event' = MethodNotFound(ws, message)
                   /\ UNCHANGED <<active_connections, loop, handlers, procVars, termVars>>
       ELSE /\ event' = Ignored(ws, message)
            /\ UNCHANGED <<active_connections, loop, handlers, procVars, termVars>>

\* ConnectionManager.connect
connect(ws) ==
  /\ loop[ws] = "new"
  /\ active_connections' = active_connections \cup {ws}
  /\ loop' = [loop EXCEPT ![ws] = "recv"]
  /\ UNCHANGED <<handlers, procVars, termVars>>
  /\ event' = NoEvent

\* receive_text raises WebSocketDisconnect: ConnectionManager.disconnect
disconnect_m(ws) ==
  /\ loop[ws] = "recv"
  /\ active_connections' = active_connections \ {ws}
  /\ loop' = [loop EXCEPT ![ws] = "closed"]
  /\ running_processes' = EmptyMap
  /\ UNCHANGED <<handlers, process_output_buffers, procs, pumps, startedUnder,
                 returned, reapedSince, quiet, termVars>>
  /\ event' = NoEvent
disconnect(ws) ==
  /\ loop[ws] = "recv"
  /\ active_connections' = active_connections \ {ws}
  /\ loop' = [loop EXCEPT ![ws] = "closed"]
  /\ UNCHANGED <<handlers, procVars, termVars>>
  /\ event' = NoEvent

\* ------------------------------------------------------------ specification
Init ==
  /\ active_connections = {}
  /\ running_processes = EmptyMap
  /\ process_output_buffers = EmptyMap
  /\ loop = [c \in Channels |-> "new"]
  /\ handlers = {}
  /\ event = NoEvent
  /\ procs = EmptyMap
  /\ pumps = EmptyMap
  /\ _active_terminals = EmptyMap
  /\ _current_terminal_id = NoTerminal
  /\ shells = EmptyMap
  /\ startedUnder = EmptyMap
  /\ returned = {}
  /\ reapedSince = {}
  /\ quiet = {}

\* the frames sent by the latest step have left the server (send_text returned)
Delivered ==
  /\ event # NoEvent
  /\ event' = NoEvent
  /\ UNCHANGED <<active_connections, loop, handlers, procVars, termVars>>

\* the event loop runs its next callback once the previous one has returned
Idle == event = NoEvent

\* the server under clients that use the process supervisor
Next ==
  \/ Delivered
  \/ \E ws \in Channels : Idle /\ connect(ws)
  \/ \E ws \in Channels : Idle /\ disconnect(ws)
  \/ \E ws \in Channels : \E message \in ProcFrames(ws) \cup UnknownFrames(ws) :
       Idle /\ websocket_endpoint(ws, message)
  \/ \E h \in handlers : Idle /\ StartSpawned(h)
  \/ \E h \in handlers : Idle /\ SpawnFailed(h)
  \/ \E h \in handlers : Idle /\ KillReturn(h)
  \/ \E p \in Pids : Idle /\ collect_process_output(p)
  \/ \E p \in Pids : Idle /\ ProcClose(p)
  \/ \E p \in Pids : Idle /\ ProcExit(p)

Spec == Init /\ [][Next]_vars

\* the server under clients that use the terminal sessions
NextTerm ==
  \/ Delivered
  \/ \E ws \in Channels : Idle /\ connect(ws)
  \/ \E ws \in Channels : Idle /\ disconnect(ws)
  \/ \E ws \in Channels : \E message \in TermFrames(ws) \cup UnknownFrames(ws) :
       Idle /\ websocket_endpoint(ws, message)
  \/ \E ws \in Channels : \E message \in OtherFrames(ws) \cup MalformedFrames(ws) :
       Idle /\ websocket_endpoint(ws, message)
  \/ \E h \in handlers : Idle /\ CreateSpawned(h)
  \/ \E h \in handlers : Idle /\ CreateSpawnFailed(h)
  \/ \E h \in handlers : Idle /\ CreateSettled(h)
  \/ \E h \in handlers : Idle /\ CloseReturn(h)
  \/ \E t \in Tids : Idle /\ ShellExit(t)

SpecTerm == Init /\ [][NextTerm]_vars

\* the server under clients that write to the sessions and read their histories
NextRepl ==
  \/ Delivered
  \/ \E ws \in Channels : Idle /\ connect(ws)
  \/ \E ws \in Channels : Idle /\ disconnect(ws)
  \/ \E ws \in Channels :
       \E message \in CreateFrames(ws) \cup CloseFrames(ws) \cup ListFrames(ws)
                         \cup WriteFrames(ws) \cup ReadFrames(ws) :
         Idle /\ websocket_endpoint(ws, message)
  \/ \E h \in handlers : Idle /\ CreateSpawned(h)
  \/ \E h \in handlers : Idle /\ CreateSpawnFailed(h)
  \/ \E h \in handlers : Idle /\ CreateSettled(h)
  \/ \E h \in handlers : Idle /\ CloseReturn(h)
  \/ \E h \in handlers : Idle /\ WriteSettled(h)
  \/ \E t \in Tids : Idle /\ ShellExit(t)

SpecRepl == Init /\ [][NextRepl]_vars

\* the requests of each kind that name or resolve a session
SessionMethods ==
  {"closeTerminalSession", "switchTerminalSession", "clearTerminalOutput",
   "readTerminalOutput", "writeToTerminal", "sendControlCharacter"}
FramesFor(ws, method) ==
  CASE method = "closeTerminalSession" -> CloseFrames(ws)
    [] method = "switchTerminalSession" -> SwitchFrames(ws)
    [] method = "clearTerminalOutput" -> ClearFrames(ws)
    [] method = "readTerminalOutput" -> ReadFrames(ws)
    [] method = "writeToTerminal" -> {m \in WriteFrames(ws) : m.params.text # ""}
    [] method = "sendControlCharacter" ->
         {m \in ControlFrames(ws) : m.params.character \in {"c", "x"}}
SessionFrames(ws) == UNION {FramesFor(ws, method) : method \in SessionMethods}

\* a control character is sent only to sessions that are not in the map
ToClosed(message) ==
  message.method = "sendControlCharacter" =>
    TerminalOf(message.params) \notin DOMAIN _active_terminals

\* the server under clients that use every operation of the sessions
NextSess ==
  \/ Delivered
  \/ \E ws \in Channels : Idle /\ connect(ws)
  \/ \E ws \in Channels : Idle /\ disconnect(ws)
  \/ \E ws \in Channels : \E message \in CreateFrames(ws) \cup SessionFrames(ws) :
       Idle /\ ToClosed(message) /\ websocket_endpoint(ws, message)
  \/ \E h \in handlers : Idle /\ CreateSpawned(h)
  \/ \E h \in handlers : Idle /\ CreateSpawnFailed(h)
  \/ \E h \in handlers : Idle /\ CreateSettled(h)
  \/ \E h \in handlers : Idle /\ CloseReturn(h)
  \/ \E h \in handlers : Idle /\ WriteSettled(h)
  \/ \E t \in Tids : Idle /\ ShellExit(t)

SpecSess == Init /\ [][NextSess]_vars

\* a create request while no session has been asked for yet
FirstCreate(message) ==
  message.method = "createTerminalSession" => (DOMAIN shells = {} /\ handlers = {})

\* the server under clients that send control characters to one session
NextCtl ==
  \/ Delivered
  \/ \E ws \in Channels : Idle /\ connect(ws)
  \/ \E ws \in Channels : Idle /\ disconnect(ws)
  \/ \E ws \in Channels :
       \E message \in CreateFrames(ws) \cup CloseFrames(ws) \cup ControlFrames(ws) :
         Idle /\ FirstCreate(message) /\ websocket_endpoint(ws, message)
  \/ \E h \in handlers : Idle /\ CreateSpawned(h)
  \/ \E h \in handlers : Idle /\ CreateSpawnFailed(h)
  \/ \E h \in handlers : Idle /\ CreateSettled(h)
  \/ \E h \in handlers : Idle /\ CloseReturn(h)
  \/ \E h \in handlers : Idle /\ ControlSettled(h)
  \/ \E t \in Tids : Idle /\ ShellExit(t)

SpecCtl == Init /\ [][NextCtl]_vars

\* the start and drain requests clients send next to their eval requests
StartFrames(ws) == {m \in ProcFrames(ws) : m.method = "startLongRunningCommand"
                                           /\ m.params.processId \in Ids}
GetFrames(ws) == {m \in ProcFrames(ws) : m.method = "getProcessOutput"
                                         /\ m.params.processId \in Ids}

\* the server under clients that start processes and evaluate forms in them
NextEval ==
  \/ Delivered
  \/ \E ws \in Channels : Idle /\ connect(ws)
  \/ \E ws \in Channels : Idle /\ disconnect(ws)
  \/ \E ws \in Channels :
       \E message \in StartFrames(ws) \cup GetFrames(ws) \cup EvalFrames(ws) :
         Idle /\ websocket_endpoint(ws, message)
  \/ \E h \in handlers : Idle /\ StartSpawned(h)
  \/ \E h \in handlers : Idle /\ SpawnFailed(h)
  \/ \E h \in handlers : Idle /\ EvalSettled(h)
  \/ \E p \in Pids : Idle /\ collect_process_output(p)
  \/ \E p \in Pids : Idle /\ ProcClose(p)
  \/ \E p \in Pids : Idle /\ ProcExit(p)

SpecEval == Init /\ [][NextEval]_vars

\* requests that lack the parameter their handler needs: a start without
\* command, a drain and a kill without processId, a switch without terminalId,
\* a write without text, a control request without character
BareFrames(ws) ==
  {Request(RequestId(ws), "startLongRunningCommand",
           [processId |-> Absent, terminalId |-> NoTerminal, command |-> command]) :
     command \in {Absent, ""}}
  \cup {Request(RequestId(ws), method, Params(Absent, NoTerminal)) :
          method \in {"getProcessOutput", "killProcess", "switchTerminalSession"}}
  \cup {Request(RequestId(ws), "writeToTerminal",
                 ReplParams(NoTerminal, text, Absent, 0, TRUE)) : text \in {Absent, ""}}
  \cup {Request(RequestId(ws), "sendControlCharacter",
                 ReplParams(NoTerminal, Absent, character, 0, TRUE)) :
          character \in {Absent, ""}}

\* what the shell does with an empty command: nothing, successfully
EmptyScript == [out |-> 0, err |-> 0, code |-> SuccessCode, bad |-> 0]

\* the server under clients that leave required parameters out
NextParams ==
  \/ Delivered
  \/ \E ws \in Channels : Idle /\ connect(ws)
  \/ \E ws \in Channels : Idle /\ disconnect(ws)
  \/ \E ws \in Channels : \E message \in BareFrames(ws) \cup CreateFrames(ws) :
       Idle /\ FirstCreate(message) /\ websocket_endpoint(ws, message)
  \/ \E h \in handlers : Idle /\ Spawned(h, EmptyScript)
  \/ \E h \in handlers : Idle /\ SpawnFailed(h)
  \/ \E h \in handlers : Idle /\ CreateSpawned(h)
  \/ \E h \in handlers : Idle /\ CreateSpawnFailed(h)
  \/ \E h \in handlers : Idle /\ CreateSettled(h)
  \/ \E p \in Pids : Idle /\ collect_process_output(p)
  \/ \E p \in Pids : Idle /\ ProcClose(p)
  \/ \E p \in Pids : Idle /\ ProcExit(p)

SpecParams == Init /\ [][NextParams]_vars

\* a start request while the supervisor has not been asked to start anything yet
FirstStart(message) ==
  message.method = "startLongRunningCommand" =>
    (DOMAIN procs = {} /\ handlers = {})

\* one turn of the pump of process p, when the event loop is free to run it
PumpTurn(p) == Idle /\ collect_process_output(p)

\* the server supervising one process that runs a longer command
NextPump ==
  \/ Delivered
  \/ \E ws \in Channels : Idle /\ connect(ws)
  \/ \E ws \in Channels : Idle /\ disconnect(ws)
  \/ \E ws \in Channels : \E message \in ProcFrames(ws) :
       Idle /\ FirstStart(message) /\ websocket_endpoint(ws, message)
  \/ \E h \in handlers : \E script \in LongScripts : Idle /\ Spawned(h, script)
  \/ \E h \in handlers : Idle /\ SpawnFailed(h)
  \/ \E h \in handlers : Idle /\ KillReturn(h)
  \/ \E p \in Pids : PumpTurn(p)
  \/ \E p \in Pids : Idle /\ ProcClose(p)
  \/ \E p \in Pids : Idle /\ ProcExit(p)

\* the event loop is fair: a sent frame leaves, and a pump that can go on over
\* and over does go on
SpecPump ==
  /\ Init /\ [][NextPump]_vars
  /\ WF_vars(Delivered)
  /\ \A p \in Pids : SF_vars(PumpTurn(p))

\* ------------------------------------------------------------------ properties
\* what a finished step sent
Replies == event.replies
IsError(r, ch, id, code) ==
  /\ r.to = ch /\ r.msg.type = "error" /\ r.msg.id = id /\ r.msg.error.code = code
IsResponse(r, ch, id) ==
  /\ r.to = ch /\ r.msg.type = "response" /\ r.msg.id = id

\* the lines the pump of process p has stored so far
Captured(p) ==
  {StdoutLine(p, n) : n \in 1 .. (procs[p].script.out - procs[p].outLeft)}
  \cup {StderrLine(p, n) : n \in 1 .. (procs[p].script.err - procs[p].errLeft)}
  \cup (IF pumps[p].pc = "running" THEN {} ELSE {ExitLine(p, procs[p].returncode[1])})

\* this step is one in which the server handles a request of the method
Handles(method) == event'.method = method

\* the getProcessOutput / killProcess frames of channel ws
DrainFrames(ws) == {m \in ProcFrames(ws) : m.method = "getProcessOutput"}
KillFrames(ws) == {m \in ProcFrames(ws) : m.method = "killProcess"}

\* C1: every request with a registered method whose handling has ended was
\* answered by exactly one Response or Error, on the requesting channel, with
\* the request's id.
C1_ExactlyOneReply ==
  (event.done /\ event.method \in RegisteredMethods) =>
    /\ Len(Replies) = 1
    /\ Replies[1].to = event.ch
    /\ Replies[1].msg.type \in {"response", "error"}
    /\ Replies[1].msg.id = event.id

\* C3: a request naming an unregistered method m gets exactly one Error 404
\* "Method 'm' not found" with its id, and the live set, the buffers, the
\* session map with its histories and the current pointer stay as they were.
C3_UnknownMethod ==
  [][(event'.method \in UnknownMethods) =>
     \A ws \in Channels : \A m \in UnknownFrames(ws) :
       websocket_endpoint(ws, m) =>
         /\ Len(event'.replies) = 1
         /\ IsError(event'.replies[1], ws, m.id, 404)
         /\ event'.replies[1].msg.error.message = <<"Method '", m.method, "' not found">>
         /\ UNCHANGED <<running_processes, process_output_buffers,
                        _active_terminals, _current_terminal_id>>]_vars

\* an unregistered method was answered while a process was live
C3_Witness ==
  /\ event.done /\ event.method \in UnknownMethods
  /\ Len(Replies) = 1
  /\ running_processes # EmptyMap

\* C2: in every reachable state the current-session pointer is null or a key
\* of the session map, whatever handlers are suspended.
C2_PointerValid ==
  _current_terminal_id = NoTerminal \/ _current_terminal_id \in DOMAIN _active_terminals

\* the current session was closed while another handler was suspended, and the
\* pointer moved to a session that remains
C2_Witness ==
  /\ event.done /\ event.method = "closeTerminalSession"
  /\ Len(Replies) = 1 /\ Replies[1].msg.result.status = "closed"
  /\ _current_terminal_id # NoTerminal
  /\ handlers # {}

C5_DrainAfterExit ==
  [][Handles("getProcessOutput") =>
     \A ws \in Channels : \A m \in DrainFrames(ws) : \A p \in DOMAIN pumps :
       (/\ websocket_endpoint(ws, m)
        /\ m.params.processId = startedUnder[p]
        /\ pumps[p].pc = "done" /\ ~procs[p].killed)
       => LET out == event'.replies[1].msg.result.output IN
          /\ p \in reapedSince =>
               /\ Captured(p) \subseteq returned'
               /\ out # <<>> /\ out[Len(out)] = ExitLine(p, procs[p].script.code)
          /\ p \in quiet =>
               /\ out = <<>>
               /\ ~event'.replies[1].msg.result.isRunning]_vars

\* C6: a drain of a known key k returns the lines stored under k since the
\* previous drain of k, in the order they were stored, empties k's buffer,
\* reports isRunning = (k is in the live set), and changes neither another
\* key's buffer nor the live set.
C6_Drain ==
  [][Handles("getProcessOutput") =>
     \A ws \in Channels : \A m \in DrainFrames(ws) :
       (/\ websocket_endpoint(ws, m)
        /\ m.params.processId \in DOMAIN process_output_buffers)
       => LET k == m.params.processId
              r == event'.replies[1].msg.result IN
          /\ IsResponse(event'.replies[1], ws, m.id)
          /\ r.output = process_output_buffers[k]
          /\ \A p \in Under(k) : Captured(p) \subseteq returned'
          /\ process_output_buffers'[k] = <<>>
          /\ r.isRunning = (k \in DOMAIN running_processes)
          /\ \A j \in DOMAIN process_output_buffers \ {k} :
               process_output_buffers'[j] = process_output_buffers[j]
          /\ UNCHANGED running_processes]_vars

\* C7: every line in the buffer of a key was stored by the pump of a process
\* started under that key.
C7_BufferIsolation ==
  \A k \in DOMAIN process_output_buffers :
    \A i \in DOMAIN process_output_buffers[k] :
      startedUnder[process_output_buffers[k][i].src] = k

\* two processes under two keys run at once and each has output in its buffer
C7_Witness ==
  \E p, q \in DOMAIN procs :
    /\ startedUnder[p] # startedUnder[q]
    /\ ~HasExited(p) /\ ~HasExited(q)
    /\ \E i \in DOMAIN process_output_buffers[startedUnder[p]] :
         process_output_buffers[startedUnder[p]][i].src = p
    /\ \E i \in DOMAIN process_output_buffers[startedUnder[q]] :
         process_output_buffers[startedUnder[q]][i].src = q

\* C8: whenever killProcess answers "killed", the process it signalled has
\* exited and its key is not in the live set.
C8_KilledAfterExit ==
  [][Handles("killProcess") =>
     /\ \A h \in handlers :
          KillReturn(h) =>
            /\ HasExited(h.pid)
            /\ h.key \notin DOMAIN running_processes'
     /\ \A ws \in Channels : \A m \in KillFrames(ws) :
          (/\ websocket_endpoint(ws, m)
           /\ event'.done
           /\ event'.replies[1].msg.type = "response")
          => /\ HasExited(running_processes[m.params.processId])
             /\ m.params.processId \notin DOMAIN running_processes']_vars

\* a kill that had to wait for the exit has answered "killed"
C8_Witness ==
  /\ event.done /\ event.method = "killProcess"
  /\ Len(Replies) = 1 /\ Replies[1].msg.result.status = "killed"
  /\ \E p \in DOMAIN procs : procs[p].killed /\ HasExited(p)

\* C9: killProcess of a key that is not in the live set answers with one
\* Error 404, never with success, and changes neither the live set nor a buffer.
C9_KillNotFound ==
  [][Handles("killProcess") =>
     \A ws \in Channels : \A m \in KillFrames(ws) :
       (/\ websocket_endpoint(ws, m)
        /\ m.params.processId \notin DOMAIN running_processes)
       => /\ Len(event'.replies) = 1
          /\ IsError(event'.replies[1], ws, m.id, 404)
          /\ UNCHANGED <<running_processes, process_output_buffers>>]_vars

\* a key whose process was killed before is killed again and answered 404
C9_Witness ==
  /\ event.done /\ event.method = "killProcess"
  /\ Len(Replies) = 1 /\ Replies[1].msg.error.code = 404
  /\ \E p \in DOMAIN procs :
       /\ procs[p].killed /\ HasExited(p)
       /\ Replies[1].msg.error.message[2] = startedUnder[p]

\* C10: when the spawn fails the caller gets an Error 500 with its id, and the
\* live set, the buffers and the pump tasks are as before the request.
C10_SpawnFailed ==
  [][Handles("startLongRunningCommand") =>
     \A h \in handlers :
       SpawnFailed(h) =>
         /\ Len(event'.replies) = 1
         /\ IsError(event'.replies[1], h.ch, h.id, 500)
         /\ UNCHANGED <<running_processes, process_output_buffers, pumps>>]_vars

\* a start failed to spawn for a key that no process was ever stored under
C10_Witness ==
  /\ event.done /\ event.method = "startLongRunningCommand"
  /\ Len(Replies) = 1 /\ Replies[1].msg.error.code = 500
  /\ \E k \in Ids : k \notin DOMAIN process_output_buffers

\* the lines of process p in a list
LinesOf(p, seq) == {i \in DOMAIN seq : seq[i].src = p}

\* the recorded exit lines of process p in a list
ExitLinesOf(p, seq) ==
  {i \in LinesOf(p, seq) : seq[i].tag = "Process exited with code "}

\* C11: the pump of a process takes its key out of the live set only when both
\* streams are at end of stream and the exit code is known; it stores the exit
\* line once, in the step of the removal, and stores nothing afterwards.
C11_ReapOnce ==
  /\ [](\A p \in DOMAIN pumps : \A k \in DOMAIN process_output_buffers :
          LET n == Cardinality(ExitLinesOf(p, process_output_buffers[k])) IN
            /\ n <= 1
            /\ n = 1 => /\ pumps[p].pc # "running"
                        /\ \A l \in returned : ~(l.src = p /\ l.tag = "Process exited with code "))
  /\ [][(pumps' # pumps \/ process_output_buffers' # process_output_buffers) =>
        \A p \in DOMAIN pumps :
          /\ PumpReap(p) =>
               /\ procs[p].closed /\ procs[p].outLeft = 0 /\ procs[p].errLeft = 0
               /\ procs[p].returncode # <<>>
               /\ process_output_buffers'[pumps[p].key] =
                    Append(process_output_buffers[pumps[p].key],
                           ExitLine(p, procs[p].returncode[1]))
               /\ pumps'[p].pc # "running"
               /\ pumps[p].key \notin DOMAIN running_processes'
          /\ (PumpStdout(p) \/ PumpStderr(p)) => UNCHANGED running_processes
          /\ pumps[p].pc # "running" =>
               \A k \in DOMAIN process_output_buffers :
                 Cardinality(LinesOf(p, process_output_buffers'[k]))
                   <= Cardinality(LinesOf(p, process_output_buffers[k]))]_vars

\* a pump has reaped its process after reading a line of it, and the key is gone
C11_Witness ==
  \E p \in DOMAIN pumps :
    /\ pumps[p].pc = "done"
    /\ pumps[p].key \notin DOMAIN running_processes
    /\ Cardinality(LinesOf(p, process_output_buffers[pumps[p].key])) = 2

\* the processes in the live set
Live == {running_processes[k] : k \in DOMAIN running_processes}

\* the exit line of process p is in the buffer of its key or was returned
ExitRecorded(p) ==
  \/ ExitLinesOf(p, process_output_buffers[pumps[p].key]) # {}
  \/ \E l \in returned : l.src = p /\ l.tag = "Process exited with code "

\* process p has closed its streams and exited
Finished(p) == p \in DOMAIN procs /\ procs[p].closed /\ HasExited(p)

\* process p is out of the live set, its exit is recorded, its pump has ended
Reaped(p) ==
  /\ p \in DOMAIN procs /\ p \notin Live
  /\ pumps[p].pc # "running"
  /\ ExitRecorded(p)

\* C12: with a fair event loop, every started process whose streams close and
\* which exits is eventually out of the live set with its exit line recorded
\* and its pump ended; the end of a process sends no message to any channel.
C12_EventuallyReaped ==
  /\ \A p \in Pids : Finished(p) ~> Reaped(p)
  /\ [][(\E p \in Pids : PumpTurn(p) \/ (Idle /\ ProcExit(p)) \/ (Idle /\ ProcClose(p)))
          => event'.replies = <<>>]_vars

\* the pump of p reads a stdout line that is not UTF-8
ReadsBadLine(p) ==
  /\ PumpStdout(p)
  /\ procs[p].script.out - procs[p].outLeft + 1 = procs[p].script.bad

\* C13: a decode failure in the pump does not end it: the failure is stored as
\* a line of the buffer, the pump goes on reading, and the process is reaped
\* in the end.
C13_DecodeFailureSurvived ==
  /\ [][\A p \in DOMAIN pumps :
          ReadsBadLine(p) =>
            /\ pumps'[p].pc = "running"
            /\ Len(process_output_buffers'[pumps[p].key])
                 = Len(process_output_buffers[pumps[p].key]) + 1]_vars
  /\ \A p \in Pids :
       (Finished(p) /\ procs[p].script.bad # 0) ~> Reaped(p)

\* the lines of one stream of process p, in a list, are in the order read
InOrder(p, tag, seq) ==
  \A i, j \in LinesOf(p, seq) :
    (i < j /\ seq[i].tag = tag /\ seq[j].tag = tag) => seq[i].val < seq[j].val

\* the line the step appended to the buffer of the key of process p
Appended(p) ==
  LET b == process_output_buffers'[pumps[p].key] IN b[Len(b)]

\* the step appended exactly one line to the buffer of p's key and left the
\* other buffers as they were
AppendsOne(p) ==
  /\ Len(process_output_buffers'[pumps[p].key])
       = Len(process_output_buffers[pumps[p].key]) + 1
  /\ SubSeq(process_output_buffers'[pumps[p].key], 1,
            Len(process_output_buffers[pumps[p].key]))
       = process_output_buffers[pumps[p].key]
  /\ \A k \in DOMAIN process_output_buffers \ {pumps[p].key} :
       process_output_buffers'[k] = process_output_buffers[k]

\* C14: the stdout lines of a process are in its buffer, across drains, in the
\* order read, and so are its stderr lines; a stderr line is stored behind
\* "ERROR: " and a stdout line is not; a pump step only appends.
C14_AppendOnlyFifo ==
  /\ [](\A p \in DOMAIN pumps : \A tag \in {"", "ERROR: "} :
          /\ InOrder(p, tag, process_output_buffers[pumps[p].key])
          /\ \A i \in LinesOf(p, process_output_buffers[pumps[p].key]) :
               LET l == process_output_buffers[pumps[p].key][i] IN
                 \A r \in returned :
                   (r.src = p /\ r.tag = l.tag) => r.val < l.val)
  /\ [][\A p \in DOMAIN pumps :
          /\ (PumpStdout(p) /\ ~ReadsBadLine(p)) =>
               /\ AppendsOne(p)
               /\ Appended(p).src = p /\ Appended(p).tag = ""
               /\ Appended(p).val = procs[p].script.out - procs[p].outLeft + 1
          /\ PumpStderr(p) =>
               /\ AppendsOne(p)
               /\ Appended(p).src = p /\ Appended(p).tag = "ERROR: "
               /\ Appended(p).val = procs[p].script.err - procs[p].errLeft + 1
          /\ PumpReap(p) => AppendsOne(p)]_vars

\* a drain has returned the first stderr line of a process, and the buffer
\* holds its second stderr line and both its stdout lines
C14_Witness ==
  \E p \in DOMAIN pumps :
    LET b == process_output_buffers[pumps[p].key] IN
    /\ StderrLine(p, 1) \in returned
    /\ \E i, j, k \in DOMAIN b :
         /\ i < j
         /\ b[i] = StdoutLine(p, 1) /\ b[j] = StdoutLine(p, 2)
         /\ b[k] = StderrLine(p, 2)

\* C15: a drain of a key under which no process was ever started is answered
\* with one Error 404; no buffer is created and nothing else changes.
C15_DrainNotFound ==
  [][Handles("getProcessOutput") =>
     \A ws \in Channels : \A m \in DrainFrames(ws) :
       (/\ websocket_endpoint(ws, m)
        /\ m.params.processId \in Ids
        /\ Under(m.params.processId) = {})
       => /\ Len(event'.replies) = 1
          /\ IsError(event'.replies[1], ws, m.id, 404)
          /\ UNCHANGED <<active_connections, loop, handlers, procVars, termVars>>]_vars

\* a key never started was drained and answered 404 while another key has a
\* buffer with lines in it
C15_Witness ==
  /\ event.done /\ event.method = "getProcessOutput"
  /\ Len(Replies) = 1 /\ Replies[1].msg.error.code = 404
  /\ Under(Replies[1].msg.error.message[2]) = {}
  /\ \E k \in DOMAIN process_output_buffers : process_output_buffers[k] # <<>>

\* C16: once a start of k has succeeded k has a buffer in every later state;
\* a drain of k then always succeeds, and once the pump of a process of k has
\* recorded its exit, after a natural exit or a kill, the exit line is among
\* the lines the drains of k have returned.
C16_BufferSurvives ==
  /\ [](\A p \in DOMAIN startedUnder : startedUnder[p] \in DOMAIN process_output_buffers)
  /\ [][Handles("getProcessOutput") =>
        \A ws \in Channels : \A m \in DrainFrames(ws) :
          (/\ websocket_endpoint(ws, m)
           /\ m.params.processId \in Ids
           /\ Under(m.params.processId) # {})
          => /\ IsResponse(event'.replies[1], ws, m.id)
             /\ \A p \in Under(m.params.processId) :
                  pumps[p].pc # "running" =>
                    \E l \in returned' :
                      l.src = p /\ l.tag = "Process exited with code "]_vars

\* C17: a disconnect takes the channel out of the registry and changes nothing
\* else: the live set, the buffers, the processes and their pumps, the session
\* map and the current pointer stay as they were.
C17_DisconnectFrame ==
  [][active_connections' # active_connections =>
     \A ws \in Channels :
       disconnect(ws) =>
         /\ active_connections' = active_connections \ {ws}
         /\ UNCHANGED <<running_processes, process_output_buffers, procs, pumps,
                        _active_terminals, _current_terminal_id>>]_vars

\* the only channel that ever connected has gone, and a process it started is
\* still in the live set with its pump running and output in its buffer
C17_Witness ==
  \E c \in Channels :
    /\ loop[c] = "closed"
    /\ \A d \in Channels \ {c} : loop[d] = "new"
    /\ \E p \in DOMAIN pumps :
         /\ pumps[p].pc = "running" /\ p \in Live
         /\ process_output_buffers[pumps[p].key] # <<>>

\* the handling of a request ended in an Error or in an exception
Failed(ev) ==
  /\ ev.done
  /\ \/ ev.replies = <<>>
     \/ \E i \in DOMAIN ev.replies : ev.replies[i].msg.type = "error"

\* C18: when a handler fails its channel stays open and in the registry, ready
\* for the next request; a channel leaves the registry only by a disconnect.
C18_FailureKeepsChannel ==
  /\ [](Failed(event) =>
          /\ event.ch \in active_connections
          /\ loop[event.ch] = "recv")
  /\ [][\A ws \in active_connections \ active_connections' : disconnect(ws)]_vars

\* a handler raised, and a suspended handler answered with an Error, and the
\* channel is still registered and reading
C18_Witness ==
  /\ Failed(event)
  /\ event.method = "startLongRunningCommand"
  /\ event.ch \in active_connections /\ loop[event.ch] = "recv"

\* C19: a frame that is not JSON, and a message of type response or error, gets
\* no reply, runs no handler and changes no process or session state; the
\* channel stays open and reads the next frame.
C19_Ignored ==
  [][(event'.done /\ event'.method = "") =>
     \A ws \in Channels : \A m \in OtherFrames(ws) :
       websocket_endpoint(ws, m) =>
         /\ event'.replies = <<>>
         /\ UNCHANGED <<active_connections, loop, handlers, procVars, termVars>>
         /\ loop'[ws] = "recv"]_vars

\* a frame that is not JSON was dropped while a session is open
C19_Witness ==
  /\ event = Ignored(event.ch, NotJson)
  /\ event.ch \in active_connections /\ loop[event.ch] = "recv"
  /\ DOMAIN _active_terminals # {}

\* C20: a request that also carries a populated result is dropped when it is
\* decoded: no handler is called for it and no reply is sent.
C20_MalformedDropped ==
  [][event' # NoEvent =>
     \A ws \in Channels : \A m \in MalformedFrames(ws) :
       websocket_endpoint(ws, m) =>
         /\ event'.replies = <<>>
         /\ UNCHANGED <<handlers, termVars>>]_vars

\* the step ends a request for method with one Response
Succeeds(method) ==
  /\ event'.method = method /\ event'.done
  /\ Len(event'.replies) = 1 /\ event'.replies[1].msg.type = "response"

\* the step ends a request for method with one Error of the code
Fails(method, code) ==
  /\ event'.method = method /\ event'.done
  /\ Len(event'.replies) = 1 /\ event'.replies[1].msg.type = "error"
  /\ event'.replies[1].msg.error.code = code

\* the sessions other than k are in the map as they were
OthersKept(k) ==
  /\ DOMAIN _active_terminals' \ {k} = DOMAIN _active_terminals \ {k}
  /\ \A t \in DOMAIN _active_terminals \ {k} : _active_terminals'[t] = _active_terminals[t]

\* what a successful close of session k leaves
CloseEffect(k) ==
  /\ k \in DOMAIN _active_terminals
  /\ k \notin DOMAIN _active_terminals'
  /\ OthersKept(k)
  /\ k # _current_terminal_id => UNCHANGED _current_terminal_id
  /\ k = _current_terminal_id =>
       IF DOMAIN _active_terminals' = {}
         THEN _current_terminal_id' = NoTerminal
         ELSE _current_terminal_id' \in DOMAIN _active_terminals'

\* C21: after a successful close of session k, given in the request or taken
\* from the current pointer, k is not in the session map and every other
\* session is; the pointer is unchanged if k was not current, and otherwise
\* is the key of a remaining session, or null when none remains.
C21_CloseEffect ==
  [][Succeeds("closeTerminalSession") =>
       /\ \A ws \in Channels : \A m \in CloseFrames(ws) :
            websocket_endpoint(ws, m) => CloseEffect(TerminalOf(m.params))
       /\ \A h \in handlers : CloseReturn(h) => CloseEffect(h.tid)]_vars

\* the first of two sessions was closed, and the other one is current now
C21_Witness ==
  /\ event.done /\ event.method = "closeTerminalSession"
  /\ Len(Replies) = 1 /\ Replies[1].msg.result.status = "closed"
  /\ Cardinality(DOMAIN shells) = 2
  /\ DOMAIN _active_terminals = {2} /\ _current_terminal_id = 2

\* C23: a close fails with code 404 when the key it names is not in the session
\* map, and also when it names none and the current pointer is null; the
\* session map and the pointer are unchanged.
C23_CloseNotFound ==
  [][event'.method = "closeTerminalSession" =>
       \A ws \in Channels : \A m \in CloseFrames(ws) :
         (/\ websocket_endpoint(ws, m)
          /\ TerminalOf(m.params) \notin DOMAIN _active_terminals)
         => /\ Fails("closeTerminalSession", 404)
            /\ UNCHANGED <<_active_terminals, _current_terminal_id>>]_vars

\* C24: a successful create adds one key to the session map, which no session
\* had; it makes it current exactly when the pointer was null at the time, and
\* leaves the other sessions and their histories as they were.
C24_CreateEffect ==
  [][_active_terminals' # _active_terminals =>
       \A h \in handlers :
         /\ CreateSpawned(h) =>
              \E k \in Tids :
                /\ k \notin DOMAIN _active_terminals /\ k \notin DOMAIN shells
                /\ DOMAIN _active_terminals' = DOMAIN _active_terminals \cup {k}
                /\ OthersKept(k)
                /\ _active_terminals'[k].output = <<>>
                /\ _current_terminal_id' =
                     IF _current_terminal_id = NoTerminal THEN k ELSE _current_terminal_id
         /\ CreateSettled(h) =>
              /\ OthersKept(h.tid)
              /\ DOMAIN _active_terminals' = DOMAIN _active_terminals
              /\ UNCHANGED _current_terminal_id]_vars

\* a second session was created while the first is current and has a history
C24_Witness ==
  /\ event.done /\ event.method = "createTerminalSession"
  /\ Len(Replies) = 1 /\ Replies[1].msg.result.status = "created"
  /\ DOMAIN _active_terminals = {1, 2} /\ _current_terminal_id = 1
  /\ _active_terminals[1].output # <<>> /\ _active_terminals[2].output # <<>>

\* C25: a switch to a key in the session map makes it current and changes
\* nothing else; a switch to a key that is not in the map fails with code 404
\* and leaves the pointer and the session map as they were.
C25_Switch ==
  [][event'.method = "switchTerminalSession" =>
       \A ws \in Channels : \A m \in SwitchFrames(ws) :
         websocket_endpoint(ws, m) =>
           LET k == m.params.terminalId IN
           /\ UNCHANGED <<_active_terminals, shells, handlers, loop,
                          active_connections, procVars>>
           /\ IF k \in DOMAIN _active_terminals
                THEN Succeeds("switchTerminalSession") /\ _current_terminal_id' = k
                ELSE Fails("switchTerminalSession", 404)
                     /\ UNCHANGED _current_terminal_id]_vars

\* the second session is current, and a switch to the first one, which was
\* closed, was refused
C25_Witness ==
  /\ event.done /\ event.method = "switchTerminalSession"
  /\ Len(Replies) = 1 /\ Replies[1].msg.error.code = 404
  /\ _current_terminal_id = 2 /\ DOMAIN _active_terminals = {2}

\* the request is refused with the no-active-session error
FailsNoActiveSession(method) ==
  /\ Fails(method, 400)
  /\ event'.replies[1].msg.error.message = <<"No active terminal session">>

\* the write requests that carry a text
TextFrames(ws) == {m \in WriteFrames(ws) : m.params.text # ""}

\* C22: when the only session is closed the session map is empty and the
\* pointer null, so that the list of sessions is empty; until a session is
\* created again every write of a text without a key fails with the
\* no-active-session error, and nothing is written to any shell.
C22_CloseLast ==
  /\ [][Succeeds("closeTerminalSession") =>
          (Cardinality(DOMAIN _active_terminals) = 1 =>
             /\ _active_terminals' = EmptyMap
             /\ _current_terminal_id' = NoTerminal)]_vars
  /\ [][(event'.method \in {"listTerminalSessions", "writeToTerminal"}
         /\ DOMAIN _active_terminals = {}) =>
          \A ws \in Channels :
            /\ \A m \in ListFrames(ws) :
                 websocket_endpoint(ws, m) =>
                   /\ Succeeds("listTerminalSessions")
                   /\ event'.replies[1].msg.result.output = <<>>
            /\ \A m \in TextFrames(ws) :
                 (websocket_endpoint(ws, m) /\ m.params.terminalId = NoTerminal) =>
                   /\ FailsNoActiveSession("writeToTerminal")
                   /\ UNCHANGED <<shells, _active_terminals, _current_terminal_id,
                                  handlers>>]_vars

\* the only session was closed after a text was written to it, and a write
\* without a key has been refused since
C22_Witness ==
  /\ event.done /\ event.method = "writeToTerminal"
  /\ Len(Replies) = 1
  /\ Replies[1].msg.error.message = <<"No active terminal session">>
  /\ DOMAIN shells = {1} /\ DOMAIN _active_terminals = {}
  /\ shells[1].stdin # <<>>

\* C26: a write of a text fails with the no-active-session error when it names
\* no key and the pointer is null, and with code 404 when the key it names is
\* not in the session map; nothing is written to any shell and no history
\* changes.
C26_WriteRefused ==
  [][event'.method = "writeToTerminal" =>
       \A ws \in Channels : \A m \in TextFrames(ws) :
         websocket_endpoint(ws, m) =>
           /\ (m.params.terminalId = NoTerminal /\ _current_terminal_id = NoTerminal) =>
                /\ FailsNoActiveSession("writeToTerminal")
                /\ UNCHANGED <<shells, _active_terminals, _current_terminal_id>>
           /\ (m.params.terminalId # NoTerminal
               /\ m.params.terminalId \notin DOMAIN _active_terminals) =>
                /\ Fails("writeToTerminal", 404)
                /\ UNCHANGED <<shells, _active_terminals, _current_terminal_id>>]_vars

\* a write naming a closed session was refused with 404 while another session,
\* which has a history, is current
C26_Witness ==
  /\ event.done /\ event.method = "writeToTerminal"
  /\ Len(Replies) = 1 /\ Replies[1].msg.error.code = 404
  /\ DOMAIN _active_terminals = {2} /\ _current_terminal_id = 2
  /\ _active_terminals[2].output # <<>>

\* C27: a write resolves its session from the key it names, else from the
\* pointer at the time of the call, and writes its line to the shell of that
\* session; the lines its Response returns are what it appends to the history
\* of that session, after the lines that were there, and no other history
\* changes.
C27_WriteAppends ==
  [][event'.method = "writeToTerminal" =>
       /\ \A ws \in Channels : \A m \in TextFrames(ws) :
            (websocket_endpoint(ws, m) /\ TerminalOf(m.params) \in DOMAIN _active_terminals) =>
              LET k == TerminalOf(m.params) IN
              /\ shells'[k].stdin = Append(shells[k].stdin, <<m.params.text, "\n">>)
              /\ \A t \in DOMAIN shells \ {k} : shells'[t] = shells[t]
              /\ UNCHANGED _active_terminals
              /\ \A h \in handlers' \ handlers : h.tid = k
       /\ \A h \in handlers :
            WriteSettled(h) =>
              /\ Succeeds("writeToTerminal")
              /\ OthersKept(h.tid)
              /\ DOMAIN _active_terminals' = DOMAIN _active_terminals
              /\ h.tid \in DOMAIN _active_terminals =>
                   _active_terminals'[h.tid].output =
                     _active_terminals[h.tid].output
                       \o event'.replies[1].msg.result.output]_vars

\* a write returned one line and stored it after the line the history had,
\* while the other session keeps its own history
C27_Witness ==
  /\ event.done /\ event.method = "writeToTerminal"
  /\ Len(Replies) = 1 /\ Len(Replies[1].msg.result.output) = 1
  /\ \E k \in DOMAIN _active_terminals :
       /\ Len(_active_terminals[k].output) = 2
       /\ _active_terminals[k].output[2] = Replies[1].msg.result.output[1]
       /\ \E t \in DOMAIN _active_terminals \ {k} : _active_terminals[t].output # <<>>

\* C28: a read of the history changes no state, whatever lineCount, fromEnd and
\* key it carries: the histories, the session map and the pointer are after
\* the call what they were before, and the window it returns is a function of
\* them alone.
C28_ReadKeepsState ==
  [][event'.method = "readTerminalOutput" =>
       \A ws \in {event'.ch} : \A m \in ReadFrames(ws) :
         websocket_endpoint(ws, m) =>
           /\ UNCHANGED <<_active_terminals, _current_terminal_id, shells, handlers,
                          loop, active_connections, procVars>>
           /\ TerminalOf(m.params) \in DOMAIN _active_terminals =>
                /\ Succeeds("readTerminalOutput")
                /\ event'.replies[1].msg.result.output =
                     Window(_active_terminals'[TerminalOf(m.params)].output,
                            m.params.lineCount, m.params.fromEnd)]_vars

\* a read returned one line of a history of two lines
C28_Witness ==
  /\ event.done /\ event.method = "readTerminalOutput"
  /\ Len(Replies) = 1 /\ Len(Replies[1].msg.result.output) = 1
  /\ \E k \in DOMAIN _active_terminals : Len(_active_terminals[k].output) = 2

Min(a, b) == IF a <= b THEN a ELSE b

\* C29: a read with lineCount n >= 0 returns the last min(n, |H|) lines of the
\* history H in order when fromEnd is true, and the first min(n, |H|) lines
\* when it is false; so never more than n lines, and none for n = 0.
C29_Window ==
  [][event'.method = "readTerminalOutput" =>
       \A ws \in {event'.ch} : \A m \in ReadFrames(ws) :
         (websocket_endpoint(ws, m) /\ TerminalOf(m.params) \in DOMAIN _active_terminals) =>
           LET H   == _active_terminals[TerminalOf(m.params)].output
               n   == m.params.lineCount
               len == Min(n, Len(H))
               out == event'.replies[1].msg.result.output
           IN
           /\ Succeeds("readTerminalOutput")
           /\ Len(out) = len
           /\ \A i \in 1 .. len :
                out[i] = IF m.params.fromEnd THEN H[Len(H) - len + i] ELSE H[i]]_vars

\* the control byte of each mnemonic, in either case
ControlByte ==
  [c |-> 3, C |-> 3, d |-> 4, z |-> 26, l |-> 12, a |-> 1, e |-> 5, u |-> 21,
   r |-> 18, R |-> 18]

\* C30: a send of a control character to a session that resolves takes the
\* mnemonics c, d, z, l, a, e, u, r in either case and writes the one byte 3,
\* 4, 26, 12, 1, 5, 21, 18 to the shell of the session, with no newline; any
\* other mnemonic is answered with an Error, and nothing is written and no
\* history changes.
C30_ControlBytes ==
  [][event'.method = "sendControlCharacter" =>
       \A ws \in {event'.ch} : \A m \in ControlFrames(ws) :
         (websocket_endpoint(ws, m) /\ TerminalOf(m.params) \in DOMAIN _active_terminals) =>
           LET k == TerminalOf(m.params)
               character == m.params.character
           IN
           /\ UNCHANGED _active_terminals
           /\ \A t \in DOMAIN shells \ {k} : shells'[t] = shells[t]
           /\ IF character \in DOMAIN ControlByte
                THEN /\ shells'[k].stdin = Append(shells[k].stdin, <<ControlByte[character]>>)
                     /\ ~ShellExited(k) =>
                          /\ event'.replies = <<>>
                          /\ \E h \in handlers' \ handlers : h.tid = k
                ELSE /\ event'.done /\ Len(event'.replies) = 1
                     /\ event'.replies[1].msg.type = "error"
                     /\ UNCHANGED shells]_vars

\* the byte of R was written to the shell and its output came back, and a
\* mnemonic that is not mapped was refused
C30_Witness ==
  /\ event.done /\ event.method = "sendControlCharacter"
  /\ Len(Replies) = 1 /\ Replies[1].msg.error.code = 400
  /\ Replies[1].msg.error.message = <<"Unsupported control character: ", "x">>
  /\ \E k \in DOMAIN _active_terminals :
       /\ shells[k].stdin = <<(<<18>>)>>
       /\ _active_terminals[k].output # <<>>

\* C31: a clear of a session that resolves empties the history of that session
\* and changes nothing else: the session stays in the map with its process,
\* the pointer stays, and the other histories stay.
C31_Clear ==
  [][event'.method = "clearTerminalOutput" =>
       \A ws \in {event'.ch} : \A m \in ClearFrames(ws) :
         (websocket_endpoint(ws, m) /\ TerminalOf(m.params) \in DOMAIN _active_terminals) =>
           LET k == TerminalOf(m.params) IN
           /\ Succeeds("clearTerminalOutput")
           /\ DOMAIN _active_terminals' = DOMAIN _active_terminals
           /\ _active_terminals'[k].output = <<>>
           /\ _active_terminals'[k].process = _active_terminals[k].process
           /\ OthersKept(k)
           /\ UNCHANGED <<_current_terminal_id, shells, handlers, loop,
                          active_connections, procVars>>]_vars

\* the history of the first session was cleared while a write to it is in
\* flight, and the second session keeps its history
C31_Witness ==
  /\ event.done /\ event.method = "clearTerminalOutput"
  /\ Len(Replies) = 1 /\ Replies[1].msg.result.status = "cleared"
  /\ DOMAIN _active_terminals = {1, 2}
  /\ shells[1].nread > 0 /\ _active_terminals[1].output = <<>>
  /\ _active_terminals[2].output # <<>>
  /\ \E h \in handlers : h.method = "writeToTerminal" /\ h.tid = 1

\* the keys of the sessions that were closed
ClosedSessions == DOMAIN shells \ DOMAIN _active_terminals

\* C32: a session that was closed stays closed: its key never comes back into
\* the session map and never becomes the current pointer, and every later
\* switch, close, write, read, send of a control character or clear that
\* names the key fails with code 404.
C32_ClosedIsFinal ==
  /\ [][\A k \in ClosedSessions :
          /\ k \notin DOMAIN _active_terminals'
          /\ k \in DOMAIN shells'
          /\ _current_terminal_id' # k]_vars
  /\ [](_current_terminal_id \notin ClosedSessions)
  /\ [][(event'.method \in SessionMethods /\ ClosedSessions # {}) =>
          \A ws \in {event'.ch} :
            \A m \in {f \in FramesFor(ws, event'.method) :
                       f.params.terminalId \in ClosedSessions} :
              websocket_endpoint(ws, m) =>
              /\ Fails(m.method, 404)
              /\ UNCHANGED <<_active_terminals, _current_terminal_id, shells>>]_vars

\* the first session was closed and a second one created after it, and a send
\* of a control character naming the first was refused
C32_Witness ==
  /\ event.done /\ event.method = "sendControlCharacter"
  /\ Len(Replies) = 1 /\ Replies[1].msg.error.code = 404
  /\ ClosedSessions = {1} /\ DOMAIN _active_terminals = {2}
  /\ _current_terminal_id = 2

\* C33: the list of sessions has one entry for each key of the session map and
\* none for any other key; the entry of a key is flagged current exactly when
\* the key is the pointer, its line count is the length of the history of the
\* key, and the call changes no state.
C33_List ==
  [][event'.method = "listTerminalSessions" =>
       \A ws \in {event'.ch} : \A m \in ListFrames(ws) :
         websocket_endpoint(ws, m) =>
           LET sessions == event'.replies[1].msg.result.output IN
           /\ Succeeds("listTerminalSessions")
           /\ Len(sessions) = Cardinality(DOMAIN _active_terminals)
           /\ {sessions[i].terminalId : i \in DOMAIN sessions} = DOMAIN _active_terminals
           /\ \A i \in DOMAIN sessions :
                /\ sessions[i].isCurrent <=> (sessions[i].terminalId = _current_terminal_id)
                /\ sessions[i].outputLineCount =
                     Len(_active_terminals[sessions[i].terminalId].output)
           /\ Cardinality({i \in DOMAIN sessions : sessions[i].isCurrent}) <= 1
           /\ UNCHANGED <<_active_terminals, _current_terminal_id, shells, handlers,
                          loop, active_connections, procVars>>]_vars

\* two sessions were listed, the first one current, with histories of
\* different lengths
C33_Witness ==
  /\ event.done /\ event.method = "listTerminalSessions"
  /\ Len(Replies) = 1 /\ Len(Replies[1].msg.result.output) = 2
  /\ Replies[1].msg.result.output[1].isCurrent
  /\ ~Replies[1].msg.result.output[2].isCurrent
  /\ Replies[1].msg.result.output[1].outputLineCount
       # Replies[1].msg.result.output[2].outputLineCount

\* C39: the current pointer is null exactly when the session map is empty;
\* when there is a session, one session of the map is current.
C39_PointerIffSessions ==
  /\ (_current_terminal_id = NoTerminal) <=> (DOMAIN _active_terminals = {})
  /\ DOMAIN _active_terminals # {} => _current_terminal_id \in DOMAIN _active_terminals

\* the current session of two was closed, and the one that remains is current
C39_Witness ==
  /\ event.done /\ event.method = "closeTerminalSession"
  /\ Len(Replies) = 1 /\ Replies[1].msg.result.status = "closed"
  /\ ClosedSessions = {2} /\ _current_terminal_id = 1

\* two closes of the same session are in flight
TwoCloses ==
  \E h1, h2 \in handlers :
    /\ h1 # h2 /\ h1.tid = h2.tid
    /\ h1.method = "closeTerminalSession" /\ h2.method = "closeTerminalSession"

\* C40: of two closes of one session that are in flight together, the one that
\* returns first removes the session and gets the Response, the other gets an
\* Error and removes nothing; the pointer is null or the key of a session of
\* the map afterwards.
C40_CloseOnce ==
  /\ [][event'.method = "closeTerminalSession" =>
          \A h \in handlers :
            (CloseReturn(h) /\ (TwoCloses \/ h.tid \in ClosedSessions)) =>
              IF h.tid \in DOMAIN _active_terminals
                THEN /\ Succeeds("closeTerminalSession")
                     /\ DOMAIN _active_terminals' = DOMAIN _active_terminals \ {h.tid}
                ELSE /\ Fails("closeTerminalSession", 500)
                     /\ UNCHANGED <<_active_terminals, _current_terminal_id>>]_vars
  /\ [][\A h \in handlers :
          (h.method = "closeTerminalSession" /\ h.tid \in DOMAIN _active_terminals) =>
            (h \in handlers' \/ h.tid \notin DOMAIN _active_terminals')]_vars
  /\ [](_current_terminal_id = NoTerminal
        \/ _current_terminal_id \in DOMAIN _active_terminals)

\* the second of two closes of the current session got its Error, and the
\* other session is current
C40_Witness ==
  /\ event.done /\ event.method = "closeTerminalSession"
  /\ Len(Replies) = 1 /\ Replies[1].msg.error.code = 500
  /\ Replies[1].msg.error.message = <<"KeyError">>
  /\ ClosedSessions = {1} /\ _current_terminal_id = 2

\* an eval request for a key that is not in the live set is refused with 404:
\* nothing is written to any process and no buffer is drained
EvalRefused(m) ==
  m.params.processId \notin DOMAIN running_processes =>
    /\ Fails("clojureRepl", 404)
    /\ UNCHANGED <<procs, process_output_buffers, returned, running_processes>>

\* an eval request for a live key writes its text and a newline to the process
\* that is in the live set under the key
EvalWritten(m) ==
  m.params.processId \in DOMAIN running_processes =>
    LET p == running_processes[m.params.processId] IN
    /\ procs'[p].stdin = Append(procs[p].stdin, <<m.params.code, "\n">>)
    /\ \A q \in DOMAIN procs \ {p} : procs'[q] = procs[q]

\* the reply of an eval carries the lines the buffer of its key holds at that
\* time, and leaves that buffer empty and the other buffers as they were
EvalDrained(h) ==
  /\ Succeeds("clojureRepl")
  /\ event'.replies[1].msg.result.output = process_output_buffers[h.key]
  /\ event'.replies[1].msg.result.processId = h.key
  /\ process_output_buffers'[h.key] = <<>>
  /\ \A j \in DOMAIN process_output_buffers \ {h.key} :
       process_output_buffers'[j] = process_output_buffers[j]

NeedsParam ==
  {"startLongRunningCommand", "getProcessOutput", "killProcess",
   "switchTerminalSession", "writeToTerminal", "sendControlCharacter"}

\* C34: a request for startLongRunningCommand without command, for
\* getProcessOutput or killProcess without processId, for switchTerminalSession
\* without terminalId, for writeToTerminal without text or for
\* sendControlCharacter without character is answered with an Error of code 400
\* and changes no state.
C34_BadRequest ==
  [][event'.method \in NeedsParam =>
       \A ws \in {event'.ch} :
         \A m \in {f \in BareFrames(ws) : f.method = event'.method} :
           websocket_endpoint(ws, m) =>
             /\ Fails(m.method, 400)
             /\ UNCHANGED <<handlers, loop, procVars, termVars>>]_vars

\* the process the live set holds under key k
LiveUnder(k) == IF k \in DOMAIN running_processes THEN {running_processes[k]} ELSE {}

\* C36: a process started under k that has not exited and has not been the
\* target of a kill is in the live set under k, whatever starts, kills and
\* pumps of the same key have done since.
C36_LiveStays ==
  \A p \in DOMAIN procs :
    (~HasExited(p) /\ ~procs[p].killed) => p \in LiveUnder(startedUnder[p])

\* the process most recently started under key k
Latest(k) == CHOOSE p \in Under(k) : \A q \in Under(k) : q <= p

\* C37: a line that is appended to the buffer of k comes from the process most
\* recently started under k.
C37_OnlyLatest ==
  [][process_output_buffers' # process_output_buffers =>
       \A k \in DOMAIN process_output_buffers :
         Len(process_output_buffers'[k]) > Len(process_output_buffers[k]) =>
           process_output_buffers'[k][Len(process_output_buffers'[k])].src = Latest(k)]_vars

\* this step ends a drain: a getProcessOutput or an eval is answered with lines
Drains ==
  /\ event'.method \in {"getProcessOutput", "clojureRepl"}
  /\ event'.done /\ Len(event'.replies) = 1
  /\ event'.replies[1].msg.type = "response"

\* C38: a line leaves a buffer only in the reply of a drain, and a drain
\* returns no line that an earlier drain has returned.
C38_ExactlyOnce ==
  [][(process_output_buffers' # process_output_buffers) =>
       /\ \A k \in DOMAIN process_output_buffers :
            Range(process_output_buffers[k])
              \subseteq Range(process_output_buffers'[k]) \cup returned'
       /\ Drains => Range(event'.replies[1].msg.result.output) \cap returned = {}]_vars
====
